---- MODULE Spec2Model ----
(***************************************************************************)
(* JobSwipe automation core: the ApplicationResult record, the             *)
(* apply_to_job lifecycle of BaseJobAutomation and of the company          *)
(* handlers, and outcome classification over the agent transcript and the  *)
(* final page text.                                                        *)
(*                                                                         *)
(* Python str values that the code inspects or composes are tuples of      *)
(* one-character strings, so that `in`, lower(), split() and re.search are *)
(* computed; enum members and error kinds are TLA+ strings.                *)
(***************************************************************************)
EXTENDS Integers, Sequences, FiniteSets, TLC

----------------------------------------------------------------------------
(* Bounds *)

\* add_step calls on one ApplicationResult by an API client
MaxSteps == 2
\* wall-clock readings are 0..MaxTime (milliseconds since the attempt began)
MaxTime == 1
\* terminal transitions applied to one ApplicationResult by an API client
MaxCalls == 3

----------------------------------------------------------------------------
(* Python str operations on tuples of characters *)

\* Optional[str] = None
None == <<"<None>">>

UpperChars ==
    <<"A","B","C","D","E","F","G","H","I","J","K","L","M",
      "N","O","P","Q","R","S","T","U","V","W","X","Y","Z">>
LowerChars ==
    <<"a","b","c","d","e","f","g","h","i","j","k","l","m",
      "n","o","p","q","r","s","t","u","v","w","x","y","z">>
Digits == {"0","1","2","3","4","5","6","7","8","9"}
Whitespace == {" ", "\n", "\t"}

Range(s) == {s[i] : i \in DOMAIN s}
MinOf(S) == CHOOSE x \in S : \A y \in S : x <= y

LowerChar(c) ==
    IF \E i \in 1..26 : UpperChars[i] = c
    THEN LowerChars[CHOOSE i \in 1..26 : UpperChars[i] = c]
    ELSE c
UpperChar(c) ==
    IF \E i \in 1..26 : LowerChars[i] = c
    THEN UpperChars[CHOOSE i \in 1..26 : LowerChars[i] = c]
    ELSE c
\* str.lower(), str.upper()
Lower(s) == [i \in 1..Len(s) |-> LowerChar(s[i])]
Upper(s) == [i \in 1..Len(s) |-> UpperChar(s[i])]

\* s[i:] starts with pat
MatchAt(s, pat, i) ==
    /\ i >= 1
    /\ i + Len(pat) - 1 <= Len(s)
    /\ \A k \in 1..Len(pat) : s[i + k - 1] = pat[k]
\* start indexes of the occurrences of pat in s
Occurrences(s, pat) == {i \in 1..(Len(s) + 1) : MatchAt(s, pat, i)}
\* pat in s
Contains(s, pat) == Occurrences(s, pat) # {}
\* s[from:to], 1-based, to exclusive
Slice(s, from, to) == [i \in 1..(to - from) |-> s[from + i - 1]]

\* s.split(sep)[1] when sep occurs in s: the text between the first
\* occurrence of sep and the next one after it (or the end of s)
SplitSecond(s, sep) ==
    LET first == MinOf(Occurrences(s, sep))
        from  == first + Len(sep)
        later == {i \in Occurrences(s, sep) : i >= from}
        to    == IF later = {} THEN Len(s) + 1 ELSE MinOf(later)
    IN  Slice(s, from, to)
\* s.split()[0] if s.split() else None
FirstToken(s) ==
    LET starts == {i \in 1..Len(s) : s[i] \notin Whitespace}
    IN  IF starts = {} THEN None
        ELSE LET from == MinOf(starts)
                 stops == {i \in from..Len(s) : s[i] \in Whitespace}
                 to == IF stops = {} THEN Len(s) + 1 ELSE MinOf(stops)
             IN  Slice(s, from, to)
\* s.split('\n')[0]
FirstLine(s) ==
    LET stops == {i \in 1..Len(s) : s[i] = "\n"}
    IN  IF stops = {} THEN s ELSE Slice(s, 1, MinOf(stops))
\* s.strip()
Strip(s) ==
    LET keep == {i \in 1..Len(s) : s[i] \notin Whitespace}
    IN  IF keep = {} THEN <<>>
        ELSE Slice(s, MinOf(keep), (CHOOSE x \in keep : \A y \in keep : y <= x) + 1)

----------------------------------------------------------------------------
(* str literals of base_automation.py and result_handler.py *)

\* 'success'
KwSuccess ==
    <<"s","u","c","c","e","s","s">>

\* 'submitted'
KwSubmitted ==
    <<"s","u","b","m","i","t","t","e","d">>

\* 'complete'
KwComplete ==
    <<"c","o","m","p","l","e","t","e">>

\* 'thank you'
KwThankYou ==
    <<"t","h","a","n","k"," ","y","o","u">>

\* 'confirmation'
KwConfirmation ==
    <<"c","o","n","f","i","r","m","a","t","i","o","n">>

\* 'application submitted'
IndApplicationSubmitted ==
    <<"a","p","p","l","i","c","a","t","i","o","n"," ","s","u","b","m","i","t","t","e","d">>

\* 'successfully applied'
IndSuccessfullyApplied ==
    <<"s","u","c","c","e","s","s","f","u","l","l","y"," ","a","p","p","l","i","e","d">>

\* 'received your application'
IndReceivedYourApplication ==
    <<"r","e","c","e","i","v","e","d"," ","y","o","u","r"," ","a","p","p","l","i","c","a","t",
    "i","o","n">>

\* 'application complete'
IndApplicationComplete ==
    <<"a","p","p","l","i","c","a","t","i","o","n"," ","c","o","m","p","l","e","t","e">>

\* 'SUCCESS:'
MarkSUCCESS ==
    <<"S","U","C","C","E","S","S",":">>

\* 'CONFIRMATION:'
MarkCONFIRMATION ==
    <<"C","O","N","F","I","R","M","A","T","I","O","N",":">>

\* 'CAPTCHA'
MarkCAPTCHA ==
    <<"C","A","P","T","C","H","A">>

\* 'ERROR:'
MarkERROR ==
    <<"E","R","R","O","R",":">>

\* 'FAILED:'
MarkFAILED ==
    <<"F","A","I","L","E","D",":">>

\* 'reference'
ReReference ==
    <<"r","e","f","e","r","e","n","c","e">>

\* 'application'
ReApplication ==
    <<"a","p","p","l","i","c","a","t","i","o","n">>

\* 'id'
ReId ==
    <<"i","d">>

\* 'tracking'
ReTracking ==
    <<"t","r","a","c","k","i","n","g">>

\* 'ticket'
ReTicket ==
    <<"t","i","c","k","e","t">>

\* 'Automation failed: '
MsgAutomationFailed ==
    <<"A","u","t","o","m","a","t","i","o","n"," ","f","a","i","l","e","d",":"," ">>

\* 'Application process completed but success unclear'
MsgUnclear ==
    <<"A","p","p","l","i","c","a","t","i","o","n"," ","p","r","o","c","e","s","s"," ","c","o",
    "m","p","l","e","t","e","d"," ","b","u","t"," ","s","u","c","c","e","s","s"," ","u","n","c",
    "l","e","a","r">>

\* 'Captcha detected - manual intervention required'
MsgCaptcha ==
    <<"C","a","p","t","c","h","a"," ","d","e","t","e","c","t","e","d"," ","-"," ","m","a","n",
    "u","a","l"," ","i","n","t","e","r","v","e","n","t","i","o","n"," ","r","e","q","u","i","r",
    "e","d">>

\* 'Unknown error'
MsgUnknownError ==
    <<"U","n","k","n","o","w","n"," ","e","r","r","o","r">>

\* 'No clear success indicators found'
MsgNoIndicators ==
    <<"N","o"," ","c","l","e","a","r"," ","s","u","c","c","e","s","s"," ","i","n","d","i","c",
    "a","t","o","r","s"," ","f","o","u","n","d">>

\* 'Result processing failed: '
MsgProcessingFailed ==
    <<"R","e","s","u","l","t"," ","p","r","o","c","e","s","s","i","n","g"," ","f","a","i","l",
    "e","d",":"," ">>

\* 'URL '
MsgUrl ==
    <<"U","R","L"," ">>

\* ' not supported by '
MsgNotSupportedBy ==
    <<" ","n","o","t"," ","s","u","p","p","o","r","t","e","d"," ","b","y"," ">>

\* ' automation'
MsgAutomation ==
    <<" ","a","u","t","o","m","a","t","i","o","n">>

\* 'LLM not initialized in ExecutionContext! This should never happen.'
MsgLlmMissing ==
    <<"L","L","M"," ","n","o","t"," ","i","n","i","t","i","a","l","i","z","e","d"," ","i","n",
    " ","E","x","e","c","u","t","i","o","n","C","o","n","t","e","x","t","!"," ","T","h","i","s",
    " ","s","h","o","u","l","d"," ","n","e","v","e","r"," ","h","a","p","p","e","n",".">>

\* 'BrowserProfile not initialized in ExecutionContext! This should never happen.'
MsgProfileMissing ==
    <<"B","r","o","w","s","e","r","P","r","o","f","i","l","e"," ","n","o","t"," ","i","n","i",
    "t","i","a","l","i","z","e","d"," ","i","n"," ","E","x","e","c","u","t","i","o","n","C","o",
    "n","t","e","x","t","!"," ","T","h","i","s"," ","s","h","o","u","l","d"," ","n","e","v","e",
    "r"," ","h","a","p","p","e","n",".">>

----------------------------------------------------------------------------
(* str literals of the company handlers *)

\* 'greenhouse.io'
PatGreenhouseIo ==
    <<"g","r","e","e","n","h","o","u","s","e",".","i","o">>

\* 'job-boards.greenhouse.io'
PatJobBoardsGreenhouseIo ==
    <<"j","o","b","-","b","o","a","r","d","s",".","g","r","e","e","n","h","o","u","s","e",".",
    "i","o">>

\* 'boards.greenhouse.io'
PatBoardsGreenhouseIo ==
    <<"b","o","a","r","d","s",".","g","r","e","e","n","h","o","u","s","e",".","i","o">>

\* 'grnh.se'
PatGrnhSe ==
    <<"g","r","n","h",".","s","e">>

\* 'linkedin.com/jobs'
PatLinkedinJobs ==
    <<"l","i","n","k","e","d","i","n",".","c","o","m","/","j","o","b","s">>

\* 'linkedin.com/jobs/view'
PatLinkedinJobsView ==
    <<"l","i","n","k","e","d","i","n",".","c","o","m","/","j","o","b","s","/","v","i","e","w">>

\* 'linkedin.com/jobs/collections'
PatLinkedinJobsCollections ==
    <<"l","i","n","k","e","d","i","n",".","c","o","m","/","j","o","b","s","/","c","o","l","l",
    "e","c","t","i","o","n","s">>

\* 'linkedin.com/jobs/search'
PatLinkedinJobsSearch ==
    <<"l","i","n","k","e","d","i","n",".","c","o","m","/","j","o","b","s","/","s","e","a","r",
    "c","h">>

\* 'example.com'
PatExampleCom ==
    <<"e","x","a","m","p","l","e",".","c","o","m">>

\* 'test.com'
PatTestCom ==
    <<"t","e","s","t",".","c","o","m">>

\* '*'
PatWildcard ==
    <<"*">>

\* ' is not a valid Greenhouse job posting'
MsgNotGreenhouse ==
    <<" ","i","s"," ","n","o","t"," ","a"," ","v","a","l","i","d"," ","G","r","e","e","n","h",
    "o","u","s","e"," ","j","o","b"," ","p","o","s","t","i","n","g">>

\* ' is not a valid LinkedIn job posting'
MsgNotLinkedIn ==
    <<" ","i","s"," ","n","o","t"," ","a"," ","v","a","l","i","d"," ","L","i","n","k","e","d",
    "I","n"," ","j","o","b"," ","p","o","s","t","i","n","g">>

\* 'User profile validation failed: '
MsgValidationFailed ==
    <<"U","s","e","r"," ","p","r","o","f","i","l","e"," ","v","a","l","i","d","a","t","i","o",
    "n"," ","f","a","i","l","e","d",":"," ">>

\* ', '
MsgJoin ==
    <<","," ">>

\* 'First name is required'
ErrFirstName ==
    <<"F","i","r","s","t"," ","n","a","m","e"," ","i","s"," ","r","e","q","u","i","r","e","d">>

\* 'Last name is required'
ErrLastName ==
    <<"L","a","s","t"," ","n","a","m","e"," ","i","s"," ","r","e","q","u","i","r","e","d">>

\* 'Email is required'
ErrEmail ==
    <<"E","m","a","i","l"," ","i","s"," ","r","e","q","u","i","r","e","d">>

\* 'Phone number is required'
ErrPhone ==
    <<"P","h","o","n","e"," ","n","u","m","b","e","r"," ","i","s"," ","r","e","q","u","i","r",
    "e","d">>

\* 'Resume is highly recommended for LinkedIn Easy Apply'
ErrResumeRecommended ==
    <<"R","e","s","u","m","e"," ","i","s"," ","h","i","g","h","l","y"," ","r","e","c","o","m",
    "m","e","n","d","e","d"," ","f","o","r"," ","L","i","n","k","e","d","I","n"," ","E","a","s",
    "y"," ","A","p","p","l","y">>

\* 'Resume file not found at: '
ErrResumeNotFound ==
    <<"R","e","s","u","m","e"," ","f","i","l","e"," ","n","o","t"," ","f","o","u","n","d"," ",
    "a","t",":"," ">>

\* 'Resume must be in PDF, DOC, or DOCX format'
ErrResumeFormat ==
    <<"R","e","s","u","m","e"," ","m","u","s","t"," ","b","e"," ","i","n"," ","P","D","F",",",
    " ","D","O","C",","," ","o","r"," ","D","O","C","X"," ","f","o","r","m","a","t">>

\* 'greenhouse'
NameGreenhouse ==
    <<"g","r","e","e","n","h","o","u","s","e">>

\* 'linkedin'
NameLinkedin ==
    <<"l","i","n","k","e","d","i","n">>

\* 'generic'
NameGeneric ==
    <<"g","e","n","e","r","i","c">>

\* 'test'
NameTest ==
    <<"t","e","s","t">>

----------------------------------------------------------------------------
(* Inputs: job URLs, profile fields, agent transcripts, final page texts, exception messages *)

\* 'https://job-boards.greenhouse.io/acme/jobs/1'
UrlGreenhouse ==
    <<"h","t","t","p","s",":","/","/","j","o","b","-","b","o","a","r","d","s",".","g","r","e",
    "e","n","h","o","u","s","e",".","i","o","/","a","c","m","e","/","j","o","b","s","/","1">>

\* 'https://www.linkedin.com/jobs/view/55'
UrlLinkedIn ==
    <<"h","t","t","p","s",":","/","/","w","w","w",".","l","i","n","k","e","d","i","n",".","c",
    "o","m","/","j","o","b","s","/","v","i","e","w","/","5","5">>

\* 'https://careers.acme.com/apply/1'
UrlGeneric ==
    <<"h","t","t","p","s",":","/","/","c","a","r","e","e","r","s",".","a","c","m","e",".","c",
    "o","m","/","a","p","p","l","y","/","1">>

\* 'https://Example.com/apply'
UrlExample ==
    <<"h","t","t","p","s",":","/","/","E","x","a","m","p","l","e",".","c","o","m","/","a","p",
    "p","l","y">>

\* 'John'
John ==
    <<"J","o","h","n">>

\* 'Doe'
Doe ==
    <<"D","o","e">>

\* ' '
Blank ==
    <<" ">>

\* '123-456-7890'
Phone ==
    <<"1","2","3","-","4","5","6","-","7","8","9","0">>

\* 'j@x.io'
Email ==
    <<"j","@","x",".","i","o">>

\* 'cv.pdf'
CvPdf ==
    <<"c","v",".","p","d","f">>

\* 'cv.txt'
CvTxt ==
    <<"c","v",".","t","x","t">>

\* 'gone.pdf'
GonePdf ==
    <<"g","o","n","e",".","p","d","f">>

\* 'https://x.io/cv.pdf'
CvUrl ==
    <<"h","t","t","p","s",":","/","/","x",".","i","o","/","c","v",".","p","d","f">>

\* 'SUCCESS: CONF123'
FinalSuccessConf ==
    <<"S","U","C","C","E","S","S",":"," ","C","O","N","F","1","2","3">>

\* 'CAPTCHA_DETECTED: recaptcha'
FinalCaptcha ==
    <<"C","A","P","T","C","H","A","_","D","E","T","E","C","T","E","D",":"," ","r","e","c","a",
    "p","t","c","h","a">>

\* 'ERROR: form incomplete'
FinalErrorIncomplete ==
    <<"E","R","R","O","R",":"," ","f","o","r","m"," ","i","n","c","o","m","p","l","e","t","e">>

\* 'Could not finish'
FinalNoMarker ==
    <<"C","o","u","l","d"," ","n","o","t"," ","f","i","n","i","s","h">>

\* 'Submitted. Reference REF2024A'
FinalSubmittedRef ==
    <<"S","u","b","m","i","t","t","e","d","."," ","R","e","f","e","r","e","n","c","e"," ","R",
    "E","F","2","0","2","4","A">>

\* 'step 9 SUCCESS: CONF123'
MemSuccessConf ==
    <<"s","t","e","p"," ","9"," ","S","U","C","C","E","S","S",":"," ","C","O","N","F","1","2",
    "3">>

\* 'SUCCESS:'
MemSuccessBare ==
    <<"S","U","C","C","E","S","S",":">>

\* 'CAPTCHA_DETECTED: recaptcha'
MemCaptcha ==
    <<"C","A","P","T","C","H","A","_","D","E","T","E","C","T","E","D",":"," ","r","e","c","a",
    "p","t","c","h","a">>

\* 'saw a captcha'
MemCaptchaLower ==
    <<"s","a","w"," ","a"," ","c","a","p","t","c","h","a">>

\* 'ERROR: Email invalid\nretry'
MemError ==
    <<"E","R","R","O","R",":"," ","E","m","a","i","l"," ","i","n","v","a","l","i","d","\n","r",
    "e","t","r","y">>

\* 'FAILED: no submit button'
MemFailed ==
    <<"F","A","I","L","E","D",":"," ","n","o"," ","s","u","b","m","i","t"," ","b","u","t","t",
    "o","n">>

\* 'captcha solved CONFIRMATION: ZX81'
MemCaptchaConfirmation ==
    <<"c","a","p","t","c","h","a"," ","s","o","l","v","e","d"," ","C","O","N","F","I","R","M",
    "A","T","I","O","N",":"," ","Z","X","8","1">>

\* 'Filled name field'
MemNoMarker ==
    <<"F","i","l","l","e","d"," ","n","a","m","e"," ","f","i","e","l","d">>

\* 'Mock page content'
PageMock ==
    <<"M","o","c","k"," ","p","a","g","e"," ","c","o","n","t","e","n","t">>

\* 'Thank you for applying'
PageThankYou ==
    <<"T","h","a","n","k"," ","y","o","u"," ","f","o","r"," ","a","p","p","l","y","i","n","g">>

\* 'Application submitted.\nConfirmation number: GH123456'
PageSubmitted ==
    <<"A","p","p","l","i","c","a","t","i","o","n"," ","s","u","b","m","i","t","t","e","d",".",
    "\n","C","o","n","f","i","r","m","a","t","i","o","n"," ","n","u","m","b","e","r",":"," ",
    "G","H","1","2","3","4","5","6">>

\* 'Please verify you are human'
PageCaptcha ==
    <<"P","l","e","a","s","e"," ","v","e","r","i","f","y"," ","y","o","u"," ","a","r","e"," ",
    "h","u","m","a","n">>

\* 'boom'
ExcBoom ==
    <<"b","o","o","m">>

\* 'timed out'
ExcTimeout ==
    <<"t","i","m","e","d"," ","o","u","t">>

\* 'CONF123'
CONF123 ==
    <<"C","O","N","F","1","2","3">>

----------------------------------------------------------------------------
(* ResultProcessor.extract_confirmation_number: re.search with            *)
(* re.IGNORECASE over the pattern list, first pattern that matches wins     *)

\* [A-Z0-9] under re.IGNORECASE
IsAlnum(c) == c \in Digits \/ c \in Range(UpperChars) \/ c \in Range(LowerChars)
\* \w, which decides the word boundary \b
IsWord(c) == IsAlnum(c) \/ c = "_"
\* the least number of characters the capture group [A-Z0-9]{6,} takes
MinTokenLen == 6
\* the least number of characters the generic code [A-Z0-9]{8,} takes
MinCodeLen == 8

\* [A-Z0-9]{n,} can start at p
TokenAt(s, p, n) ==
    /\ p + n - 1 <= Len(s)
    /\ \A k \in p..(p + n - 1) : IsAlnum(s[k])
\* the greedy {n,} takes the whole run of [A-Z0-9] from p: its end, exclusive
RunEnd(s, p) == MinOf({j \in p..(Len(s) + 1) : j = Len(s) + 1 \/ ~IsAlnum(s[j])})
\* `.` matches everything but a newline
NoNewline(s, a, b) == \A k \in a..(b - 1) : s[k] # "\n"
\* the lazy .*? from position from stops at these starts of the capture group
GroupStarts(s, from) ==
    {p \in from..Len(s) : NoNewline(s, from, p) /\ TokenAt(s, p, MinTokenLen)}

\* re.search(r'kw.*?([A-Z0-9]{6,})', text, re.IGNORECASE).group(1), or None
SearchKeyword(text, kw) ==
    LET low == Lower(text)
        hits == {i \in Occurrences(low, kw) : GroupStarts(text, i + Len(kw)) # {}}
    IN  IF hits = {} THEN None
        ELSE LET p == MinOf(GroupStarts(text, MinOf(hits) + Len(kw)))
             IN  Slice(text, p, RunEnd(text, p))
\* re.search(r'kw1.*?kw2.*?([A-Z0-9]{6,})', text, re.IGNORECASE).group(1), or None
SearchTwoKeywords(text, kw1, kw2) ==
    LET low == Lower(text)
        Seconds(i) == {q \in Occurrences(low, kw2) :
                          /\ q >= i + Len(kw1)
                          /\ NoNewline(text, i + Len(kw1), q)
                          /\ GroupStarts(text, q + Len(kw2)) # {}}
        hits == {i \in Occurrences(low, kw1) : Seconds(i) # {}}
    IN  IF hits = {} THEN None
        ELSE LET q == MinOf(Seconds(MinOf(hits)))
                 p == MinOf(GroupStarts(text, q + Len(kw2)))
             IN  Slice(text, p, RunEnd(text, p))
\* re.search(r'(\b[A-Z0-9]{8,}\b)', text, re.IGNORECASE).group(1), or None
SearchGenericCode(text) ==
    LET hits == {i \in 1..Len(text) :
                    /\ TokenAt(text, i, MinCodeLen)
                    /\ (i = 1 \/ ~IsWord(text[i - 1]))
                    /\ (RunEnd(text, i) = Len(text) + 1 \/ ~IsWord(text[RunEnd(text, i)]))}
    IN  IF hits = {} THEN None
        ELSE Slice(text, MinOf(hits), RunEnd(text, MinOf(hits)))

\* the first element of a tuple of Optional[str] that is not None, or None
FirstMatch(found) ==
    LET hits == {i \in DOMAIN found : found[i] # None}
    IN  IF hits = {} THEN None ELSE found[MinOf(hits)]

extract_confirmation_number(text) ==
    FirstMatch(<< SearchKeyword(text, KwConfirmation),
                  SearchKeyword(text, ReReference),
                  SearchTwoKeywords(text, ReApplication, ReId),
                  SearchKeyword(text, ReTracking),
                  SearchKeyword(text, ReTicket),
                  SearchGenericCode(text) >>)

----------------------------------------------------------------------------
(* ApplicationResult *)

\* class ApplicationStatus
ApplicationStatus ==
    {"SUCCESS", "FAILED", "CAPTCHA_REQUIRED", "LOGIN_REQUIRED", "TIMEOUT",
     "RATE_LIMITED", "FORM_ERROR", "NETWORK_ERROR", "UNKNOWN_ERROR"}

\* completed_at / total_duration_ms: Optional = None
NoTime == -1
\* error_type: Optional[str] = None
NoKind == "None"
\* self.result = None, and the value of a call that has not returned
NoResult == [absent |-> TRUE]

\* bool(s) of an Optional[str]
Truthy(s) == s # None /\ s # <<>>

\* @validator('success'): the constructor accepts (status, success)
success_matches_status(status, v) ==
    /\ ~(status = "SUCCESS" /\ ~v)
    /\ ~(status # "SUCCESS" /\ v)

\* ApplicationResult(job_id=..., status=..., success=..., started_at=...,
\* company_automation=..., total_steps=...), the other fields at their defaults
NewResult(job_id, status, success, started_at, company_automation, total_steps) ==
    [ job_id |-> job_id,
      status |-> status,
      success |-> success,
      started_at |-> started_at,
      completed_at |-> NoTime,
      total_duration_ms |-> NoTime,
      confirmation_number |-> None,
      company_automation |-> company_automation,
      steps_completed |-> 0,
      total_steps |-> total_steps,
      error_message |-> None,
      error_type |-> NoKind,
      retry_count |-> 0,
      steps |-> <<>>,
      screenshots |-> <<>>,
      captcha_events |-> <<>>,
      performance_metrics |-> {},
      \* history: the number of set_completed / set_failed calls on this object
      terminal_transitions |-> 0 ]

\* the same with the new step put in front of the recorded ones
add_step_Prepend(r, step_name, success, agent_result) ==
    [r EXCEPT !.steps = <<[step_name |-> step_name, success |-> success,
                           agent_result |-> agent_result]>> \o @,
              !.steps_completed = IF success THEN @ + 1 ELSE @]
\* agent_result is metadata.get('agent_result', '') of the step
add_step(r, step_name, success, agent_result) ==
    [r EXCEPT !.steps = Append(@, [step_name |-> step_name, success |-> success,
                                   agent_result |-> agent_result]),
              !.steps_completed = IF success THEN @ + 1 ELSE @]

\* t is the reading of datetime.now(timezone.utc)
set_completed(r, status, confirmation_number, t) ==
    [r EXCEPT !.completed_at = t,
              !.status = status,
              !.success = (status = "SUCCESS"),
              !.total_duration_ms = t - r.started_at,
              !.confirmation_number =
                  IF Truthy(confirmation_number) THEN confirmation_number ELSE @,
              !.terminal_transitions = @ + 1]

\* the same without the update of total_duration_ms
set_failed_StaleDuration(r, error_message, error_type, status, t) ==
    [r EXCEPT !.status = status,
              !.success = FALSE,
              !.error_message = error_message,
              !.error_type = error_type,
              !.completed_at = t,
              !.terminal_transitions = @ + 1]
\* ApplicationResult.set_failed
set_failed(r, error_message, error_type, status, t) ==
    [r EXCEPT !.status = status,
              !.success = FALSE,
              !.error_message = error_message,
              !.error_type = error_type,
              !.completed_at = t,
              !.total_duration_ms = t - r.started_at,
              !.terminal_transitions = @ + 1]

\* ResultProcessor.create_failed_result with the default status
create_failed_result(job_id, company_automation, error_message, error_type, t0, t1) ==
    set_failed(NewResult(job_id, "FAILED", FALSE, t0, company_automation, 0),
               error_message, error_type, "FAILED", t1)

\* datetime.now(): the clock does not go back and advances by at most one unit
\* between two readings
Readings(t) == {t, IF t < MaxTime THEN t + 1 ELSE t}

----------------------------------------------------------------------------
(* Handlers: TestAutomation (the base class with URL patterns),            *)
(* GenericAutomation, GreenhouseAutomation, LinkedInAutomation              *)

Handlers == {"greenhouse", "linkedin", "generic", "test"}

\* self.company_name
company_name(h) ==
    CASE h = "greenhouse" -> NameGreenhouse
      [] h = "linkedin"   -> NameLinkedin
      [] h = "generic"    -> NameGeneric
      [] h = "test"       -> NameTest

get_url_patterns(h) ==
    CASE h = "greenhouse" ->
            <<PatGreenhouseIo, PatJobBoardsGreenhouseIo, PatBoardsGreenhouseIo, PatGrnhSe>>
      [] h = "linkedin" ->
            <<PatLinkedinJobs, PatLinkedinJobsView, PatLinkedinJobsCollections,
              PatLinkedinJobsSearch>>
      [] h = "generic" -> <<PatWildcard>>
      [] h = "test" -> <<PatExampleCom, PatTestCom>>

\* BaseJobAutomation.can_handle_url, overridden by GenericAutomation
can_handle_url(h, url) ==
    IF h = "generic" THEN TRUE
    ELSE \E i \in DOMAIN get_url_patterns(h) : Contains(Lower(url), get_url_patterns(h)[i])

\* the handlers that override apply_to_job to validate before the base lifecycle
OverridesApply(h) == h \in {"greenhouse", "linkedin"}

\* Path(p).exists() in the environment of the run
ExistingFiles == {CvPdf, CvTxt}
\* Path(p).suffix.lower() in ['.pdf', '.doc', '.docx']
AcceptedSuffix(path) == path \in {CvPdf, GonePdf}

\* UserProfile.get_resume_path
get_resume_path(p) ==
    IF Truthy(p.resume_local_path) /\ p.resume_local_path \in ExistingFiles
    THEN p.resume_local_path
    ELSE p.resume_url

\* the elements of a tuple of Optional[str] that are not None, in order
Compact(found) ==
    LET F[n \in 0..Len(found)] ==
            IF n = 0 THEN <<>>
            ELSE IF found[n] = None THEN F[n - 1] ELSE Append(F[n - 1], found[n])
    IN  F[Len(found)]
\* sep.join(parts)
Join(sep, parts) ==
    LET F[n \in 0..Len(parts)] ==
            IF n = 0 THEN <<>>
            ELSE IF n = 1 THEN parts[1] ELSE F[n - 1] \o sep \o parts[n]
    IN  F[Len(parts)]

\* the resume checks of _validate_user_profile; a missing resume is a warning
\* for Greenhouse and an error for LinkedIn
ResumeError(h, p) ==
    IF ~Truthy(get_resume_path(p))
    THEN IF h = "linkedin" THEN ErrResumeRecommended ELSE None
    ELSE IF Truthy(p.resume_local_path)
         THEN IF p.resume_local_path \notin ExistingFiles
              THEN ErrResumeNotFound \o p.resume_local_path
              ELSE IF ~AcceptedSuffix(p.resume_local_path) THEN ErrResumeFormat ELSE None
         ELSE None

\* GreenhouseAutomation._validate_user_profile, LinkedInAutomation._validate_user_profile
_validate_user_profile(h, p) ==
    Compact(<< IF Strip(p.first_name) = <<>> THEN ErrFirstName ELSE None,
               IF Strip(p.last_name) = <<>> THEN ErrLastName ELSE None,
               IF ~Truthy(p.email) THEN ErrEmail ELSE None,
               IF Strip(p.phone) = <<>> THEN ErrPhone ELSE None,
               ResumeError(h, p) >>)

\* the message of the INVALID_URL result of the overriding handlers
InvalidUrlMessage(h, url) ==
    MsgUrl \o url \o (IF h = "greenhouse" THEN MsgNotGreenhouse ELSE MsgNotLinkedIn)

----------------------------------------------------------------------------
(* Outcome classification, BaseJobAutomation._process_automation_result *)

success_keywords == <<KwSuccess, KwSubmitted, KwComplete, KwThankYou, KwConfirmation>>
success_indicators ==
    <<KwThankYou, IndApplicationSubmitted, IndSuccessfullyApplied, KwConfirmation,
      IndReceivedYourApplication, IndApplicationComplete>>

\* any(keyword in text.lower() for keyword in keywords)
AnyKeyword(text, keywords) ==
    \E i \in DOMAIN keywords : Contains(Lower(text), keywords[i])

\* the outcome the transcript alone decides, or "page" when the code goes on to
\* read the final page: [kind, status, confirmation_id, error_message, error_type]
ClassifyTranscript(final_result, memory) ==
    IF Truthy(final_result) /\ AnyKeyword(final_result, success_keywords)
    THEN [kind |-> "completed", status |-> "SUCCESS",
          confirmation_id |-> extract_confirmation_number(final_result),
          error_message |-> None, error_type |-> NoKind]
    ELSE IF ~Truthy(memory)
    THEN [kind |-> "page", status |-> "FAILED", confirmation_id |-> None,
          error_message |-> None, error_type |-> NoKind]
    ELSE IF Contains(memory, MarkSUCCESS) \/ Contains(memory, MarkCONFIRMATION)
    THEN [kind |-> "completed", status |-> "SUCCESS",
          confirmation_id |->
              FirstToken(SplitSecond(memory, IF Contains(memory, MarkSUCCESS)
                                             THEN MarkSUCCESS ELSE MarkCONFIRMATION)),
          error_message |-> None, error_type |-> NoKind]
    ELSE IF Contains(Upper(memory), MarkCAPTCHA)
    THEN [kind |-> "failed", status |-> "CAPTCHA_REQUIRED", confirmation_id |-> None,
          error_message |-> MsgCaptcha, error_type |-> "CAPTCHA_REQUIRED"]
    ELSE IF Contains(memory, MarkERROR) \/ Contains(memory, MarkFAILED)
    THEN [kind |-> "failed", status |-> "FORM_ERROR", confirmation_id |-> None,
          error_message |->
              FirstLine(SplitSecond(memory, IF Contains(memory, MarkERROR)
                                            THEN MarkERROR ELSE MarkFAILED)),
          error_type |-> "FORM_ERROR"]
    ELSE [kind |-> "page", status |-> "FAILED", confirmation_id |-> None,
          error_message |-> None, error_type |-> NoKind]

\* the outcome decided on the final page's visible text
ClassifyPage(text) ==
    IF AnyKeyword(text, success_indicators)
    THEN [kind |-> "completed", status |-> "SUCCESS",
          confirmation_id |-> extract_confirmation_number(text),
          error_message |-> None, error_type |-> NoKind]
    ELSE [kind |-> "failed", status |-> "FAILED", confirmation_id |-> None,
          error_message |-> MsgNoIndicators, error_type |-> "UNCLEAR_RESULT"]

\* the set_completed / set_failed call and the confirm step of one outcome
ApplyOutcome(r, o, t) ==
    IF o.kind = "completed"
    THEN add_step(set_completed(r, o.status, o.confirmation_id, t), "confirm", TRUE, <<>>)
    ELSE set_failed(r, o.error_message, o.error_type, o.status, t)

----------------------------------------------------------------------------
(* ProxyConfig and ProxyManager, core/execution_context.py and core/proxy_manager.py *)

\* 'http'
TypeHttp ==
    <<"h","t","t","p">>
\* 'socks5'
TypeSocks5 ==
    <<"s","o","c","k","s","5">>
\* 'p1.example.com'
HostP1 ==
    <<"p","1",".","e","x","a","m","p","l","e",".","c","o","m">>
\* 'p2.example.com'
HostP2 ==
    <<"p","2",".","e","x","a","m","p","l","e",".","c","o","m">>
\* 'user'
ProxyUser ==
    <<"u","s","e","r">>
\* 'pass'
ProxyPass ==
    <<"p","a","s","s">>
\* '://'
SchemeSep ==
    <<":","/","/">>
\* ':'
PortSep ==
    <<":">>
\* 'http://proxy.x.com': a proxy host that already embeds a scheme
HostWithScheme ==
    <<"h","t","t","p",":","/","/","p","r","o","x","y",".","x",".","c","o","m">>

\* 'http://proxy.x.com:8080'
ServerProxyX ==
    <<"h","t","t","p",":","/","/","p","r","o","x","y",".","x",".","c","o","m",":","8","0","8",
    "0">>
\* the port of a descriptor that has none
NoPort == -1

DigitChars == <<"0","1","2","3","4","5","6","7","8","9">>
\* str(n) of a non-negative int
IntToStr(n) ==
    LET F[k \in 0..n] ==
            IF k < 10 THEN <<DigitChars[k + 1]>>
            ELSE Append(F[k \div 10], DigitChars[(k % 10) + 1])
    IN  F[n]
\* str(port) inside an f-string: 'None' when the port is None
PortToStr(port) == IF port = NoPort THEN <<"N","o","n","e">> ELSE IntToStr(port)

\* ProxyConfig(...)
ProxyConfig(enabled, host, port, username, password, type) ==
    [enabled |-> enabled, host |-> host, port |-> port, username |-> username,
     password |-> password, type |-> type, rotation_enabled |-> FALSE]

\* no Playwright proxy block / no proxy descriptor
NoProxy == [absent |-> TRUE]

\* ProxyConfig.to_playwright_proxy
to_playwright_proxy(c) ==
    IF ~c.enabled \/ ~Truthy(c.host) THEN NoProxy
    ELSE IF Truthy(c.username) /\ Truthy(c.password)
         THEN [server |-> c.type \o SchemeSep \o c.host \o PortSep \o PortToStr(c.port),
               username |-> c.username, password |-> c.password]
         ELSE [server |-> c.type \o SchemeSep \o c.host \o PortSep \o PortToStr(c.port)]

\* success_rate is kept in hundredths: 1.0 is 100
FullScore == 100
\* the step of mark_proxy_success, 0.05
SuccessStep == 5
\* the step of mark_proxy_failed, 0.1
FailureStep == 10

\* ProxyServer(host, port, username, password, type, country)
ProxyServer(host, port, username, password, type, country) ==
    [host |-> host, port |-> port, username |-> username, password |-> password,
     type |-> type, country |-> country, success_rate |-> FullScore]

\* ProxyManager(): an empty pool
NewProxyManager == [proxies |-> <<>>, current_index |-> 0]

\* ProxyManager.add_proxy
add_proxy(m, host, port, username, password, type, country) ==
    [m EXCEPT !.proxies = Append(@, ProxyServer(host, port, username, password, type, country))]

\* the ProxyConfig the selection methods build from a pool entry
Descriptor(p) == ProxyConfig(TRUE, p.host, p.port, p.username, p.password, p.type)

\* the entry with the best success rate (the first of them)
NextServer_Healthiest(m) ==
    m.proxies[MinOf({i \in DOMAIN m.proxies :
                        \A j \in DOMAIN m.proxies :
                            m.proxies[j].success_rate <= m.proxies[i].success_rate})]
\* self.proxies[self.current_index] (0-based index)
NextServer(m) == m.proxies[m.current_index + 1]

\* ProxyManager.get_next_proxy: what it raises, what it returns, the manager after
get_next_proxy(m) ==
    IF m.proxies = <<>>
    THEN [raises |-> NoKind, ret |-> NoProxy, manager |-> m]
    ELSE IF m.current_index >= Len(m.proxies)
    THEN [raises |-> "IndexError", ret |-> NoProxy, manager |-> m]
    ELSE [raises |-> NoKind, ret |-> Descriptor(NextServer(m)),
          manager |-> [m EXCEPT !.current_index = (@ + 1) % Len(m.proxies)]]

\* the descriptors random.choice may pick in get_random_proxy; {NoProxy} when
\* the pool is empty
get_random_proxy(m) ==
    IF m.proxies = <<>> THEN {NoProxy}
    ELSE {Descriptor(m.proxies[i]) : i \in DOMAIN m.proxies}

\* the descriptors random.choice may pick in get_proxy_by_country
get_proxy_by_country(m, country) ==
    LET matching_proxies == {i \in DOMAIN m.proxies : m.proxies[i].country = country}
    IN  IF matching_proxies = {} THEN {NoProxy}
        ELSE {Descriptor(m.proxies[i]) : i \in matching_proxies}

\* the first entry with this host and port, 0 when there is none
Matched(m, host, port) ==
    LET hits == {i \in DOMAIN m.proxies :
                    m.proxies[i].host = host /\ m.proxies[i].port = port}
    IN  IF hits = {} THEN 0 ELSE MinOf(hits)

\* the score after a failure, without the floor
rate_after_failure_NoFloor(rate) == rate - FailureStep
\* max(0.0, proxy.success_rate - 0.1)
rate_after_failure(rate) == IF rate - FailureStep < 0 THEN 0 ELSE rate - FailureStep
\* min(1.0, proxy.success_rate + 0.05)
rate_after_success(rate) == IF rate + SuccessStep > FullScore THEN FullScore ELSE rate + SuccessStep

\* the same without the break: every entry with this host and port is lowered
mark_proxy_failed_AllMatching(m, host, port) ==
    [m EXCEPT !.proxies =
        [i \in DOMAIN m.proxies |->
            IF m.proxies[i].host = host /\ m.proxies[i].port = port
            THEN [m.proxies[i] EXCEPT !.success_rate = rate_after_failure(@)]
            ELSE m.proxies[i]]]
\* ProxyManager.mark_proxy_failed
mark_proxy_failed(m, host, port) ==
    LET i == Matched(m, host, port)
    IN  IF i = 0 THEN m
        ELSE [m EXCEPT !.proxies[i].success_rate = rate_after_failure(@)]

\* ProxyManager.mark_proxy_success
mark_proxy_success(m, host, port) ==
    LET i == Matched(m, host, port)
    IN  IF i = 0 THEN m
        ELSE [m EXCEPT !.proxies[i].success_rate = rate_after_success(@)]

\* ProxyManager.get_proxy_count
get_proxy_count(m) == Len(m.proxies)

\* ProxyManager.remove_proxy: the rotation index is left as it is
remove_proxy(m, host, port) ==
    [m EXCEPT !.proxies = SelectSeq(@, LAMBDA p : ~(p.host = host /\ p.port = port))]

\* ProxyManager.clear_proxies
clear_proxies(m) == [proxies |-> <<>>, current_index |-> 0]

----------------------------------------------------------------------------
(* ExecutionContext, core/execution_context.py *)

ExecutionMode == {"SERVER", "DESKTOP"}

\* '/home/user/.config/google-chrome/Default'
ChromeProfile ==
    <<"/","h","o","m","e","/","u","s","e","r","/",".","c","o","n","f","i","g","/","g","o","o",
    "g","l","e","-","c","h","r","o","m","e","/","D","e","f","a","u","l","t">>

\* BrowserConfig()
BrowserConfig ==
    [headless |-> FALSE, disable_bfcache |-> TRUE, user_data_dir |-> None,
     viewport_width |-> 1920, viewport_height |-> 1080, user_agent |-> None]

\* what construction finds around it: the GOOGLE_API_KEY variable, and whether
\* ChatGoogle(...) and BrowserProfile(...) return or raise
Environments == [google_api_key : BOOLEAN, chat_google : BOOLEAN, browser_profile : BOOLEAN]

\* there is no context (construction raised); the records logged on the way
NoContext(log) == [absent |-> TRUE, log |-> log]

\* the same without the check of GOOGLE_API_KEY
_initialize_llm_NoKeyCheck(env) ==
    IF ~env.chat_google THEN [raises |-> "RuntimeError", log |-> <<"error">>]
    ELSE [raises |-> NoKind, log |-> <<"info">>]
\* ExecutionContext._initialize_llm: what it raises and what it logs
_initialize_llm(env) ==
    IF ~env.google_api_key THEN [raises |-> "ValueError", log |-> <<"error">>]
    ELSE IF ~env.chat_google THEN [raises |-> "RuntimeError", log |-> <<"error">>]
    ELSE [raises |-> NoKind, log |-> <<"info">>]

\* the user-data directory of a BrowserProfile constructed without a
\* user_data_dir argument: the one the browser library chooses
DefaultUserDataDir == <<"<default>">>

\* ExecutionContext._initialize_browser_profile: the proxy settings are always
\* None, whatever proxy_config holds, and no user_data_dir is passed
_initialize_browser_profile(env) ==
    IF ~env.browser_profile
    THEN [raises |-> "RuntimeError", log |-> <<"error">>, profile |-> NoProxy]
    ELSE [raises |-> NoKind, log |-> <<"info">>,
          profile |-> [headless |-> FALSE, proxy |-> NoProxy, keep_alive |-> FALSE,
                       user_data_dir |-> DefaultUserDataDir]]

\* ExecutionContext._configure_for_server
_configure_for_server(c) ==
    [c EXCEPT !.browser_config.headless = FALSE,
              !.log = @ \o (IF c.proxy_config = NoProxy THEN <<"warning">> ELSE <<>>)
                        \o <<"info">>]

\* the same without the reset of proxy_config
_configure_for_desktop_KeepProxy(c) ==
    [c EXCEPT !.browser_config.headless = FALSE,
              !.browser_config.user_data_dir =
                  IF c.user_profile.browser_profile_path # None
                  THEN c.user_profile.browser_profile_path ELSE @,
              !.log = Append(@, "info")]
\* ExecutionContext._configure_for_desktop
_configure_for_desktop(c) ==
    [c EXCEPT !.browser_config.headless = FALSE,
              !.browser_config.user_data_dir =
                  IF c.user_profile.browser_profile_path # None
                  THEN c.user_profile.browser_profile_path ELSE @,
              !.proxy_config = NoProxy,
              !.log = Append(@, "info")]

\* ExecutionContext(mode, user_profile, proxy_config) with __post_init__: what it
\* raises and the context; context.log holds the levels of the records logged.
\* user_profile.browser_profile_path is None when the dict has no such key
ExecutionContext(mode, user_profile, proxy_config, env) ==
    LET llm == _initialize_llm(env)
        bp  == _initialize_browser_profile(env)
        c0  == [mode |-> mode, user_profile |-> user_profile, proxy_config |-> proxy_config,
                browser_config |-> BrowserConfig, llm |-> TRUE,
                browser_profile |-> bp.profile, log |-> llm.log \o bp.log]
    IN  IF llm.raises # NoKind
        THEN [raises |-> llm.raises, context |-> NoContext(llm.log)]
        ELSE IF bp.raises # NoKind
        THEN [raises |-> bp.raises, context |-> NoContext(llm.log \o bp.log)]
        ELSE [raises |-> NoKind,
              context |-> IF mode = "SERVER" THEN _configure_for_server(c0)
                          ELSE _configure_for_desktop(c0)]

\* the fixed browser arguments of get_browser_launch_options
browser_args ==
    <<"--disable-bfcache", "--window-size", "--disable-blink-features=AutomationControlled",
      "--disable-dev-shm-usage", "--disable-gpu", "--no-sandbox", "--disable-setuid-sandbox",
      "--disable-infobars", "--disable-notifications", "--disable-web-security",
      "--disable-features=IsolateOrigins,site-per-process">>

\* ExecutionContext.get_browser_launch_options: a dict, here a function whose
\* domain is the set of keys
get_browser_launch_options(c) ==
    LET options == [k \in {"headless", "args"} |->
                        IF k = "headless" THEN <<c.browser_config.headless>> ELSE browser_args]
        proxy_dict == IF c.proxy_config # NoProxy THEN to_playwright_proxy(c.proxy_config)
                      ELSE NoProxy
        with_proxy == IF proxy_dict # NoProxy THEN ("proxy" :> proxy_dict) @@ options
                      ELSE options
    IN  IF Truthy(c.browser_config.user_data_dir)
        THEN ("user_data_dir" :> c.browser_config.user_data_dir) @@ with_proxy
        ELSE with_proxy

----------------------------------------------------------------------------
(* The host bridge: scripts/run_*_automation.py, the integration wrappers and *)
(* AutomationEngine.execute *)

\* 'linkedin.com'
PatLinkedinCom ==
    <<"l","i","n","k","e","d","i","n",".","c","o","m">>

\* 'lever.co'
PatLeverCo ==
    <<"l","e","v","e","r",".","c","o">>

\* 'jobs.lever.co'
PatJobsLeverCo ==
    <<"j","o","b","s",".","l","e","v","e","r",".","c","o">>

\* 'myworkdayjobs.com'
PatMyWorkdayJobs ==
    <<"m","y","w","o","r","k","d","a","y","j","o","b","s",".","c","o","m">>

\* 'workday.com'
PatWorkdayCom ==
    <<"w","o","r","k","d","a","y",".","c","o","m">>

\* 'indeed.com'
PatIndeedCom ==
    <<"i","n","d","e","e","d",".","c","o","m">>

\* 'bamboohr.com'
PatBambooHr ==
    <<"b","a","m","b","o","o","h","r",".","c","o","m">>

\* 'http://'
SchemeHttp ==
    <<"h","t","t","p",":","/","/">>

\* 'https://'
SchemeHttps ==
    <<"h","t","t","p","s",":","/","/">>

\* '555-1234'
PhoneShort ==
    <<"5","5","5","-","1","2","3","4">>

\* 'https://jobs.lever.co/acme/42'
UrlLever ==
    <<"h","t","t","p","s",":","/","/","j","o","b","s",".","l","e","v","e","r",".","c","o","/",
    "a","c","m","e","/","4","2">>

\* 'ftp://acme.com/jobs/1'
UrlFtp ==
    <<"f","t","p",":","/","/","a","c","m","e",".","c","o","m","/","j","o","b","s","/","1">>

\* 'Software Engineer'
TitleEngineer ==
    <<"S","o","f","t","w","a","r","e"," ","E","n","g","i","n","e","e","r">>

\* 'Acme'
CompanyAcme ==
    <<"A","c","m","e">>

\* 'Invalid user profile data: '
MsgInvalidUserProfile ==
    <<"I","n","v","a","l","i","d"," ","u","s","e","r"," ","p","r","o","f","i","l","e"," ","d",
    "a","t","a",":"," ">>

\* 'Invalid job data: '
MsgInvalidJobData ==
    <<"I","n","v","a","l","i","d"," ","j","o","b"," ","d","a","t","a",":"," ">>

\* 'GOOGLE_API_KEY environment variable not found! Cannot initialize LLM for automation.'
MsgNoApiKey ==
    <<"G","O","O","G","L","E","_","A","P","I","_","K","E","Y"," ","e","n","v","i","r","o","n",
    "m","e","n","t"," ","v","a","r","i","a","b","l","e"," ","n","o","t"," ","f","o","u","n","d",
    "!"," ","C","a","n","n","o","t"," ","i","n","i","t","i","a","l","i","z","e"," ","L","L","M",
    " ","f","o","r"," ","a","u","t","o","m","a","t","i","o","n",".">>

\* 'Failed to initialize LLM: '
MsgLlmFailed ==
    <<"F","a","i","l","e","d"," ","t","o"," ","i","n","i","t","i","a","l","i","z","e"," ","L",
    "L","M",":"," ">>

\* 'Failed to initialize BrowserProfile: '
MsgBrowserProfileFailed ==
    <<"F","a","i","l","e","d"," ","t","o"," ","i","n","i","t","i","a","l","i","z","e"," ","B",
    "r","o","w","s","e","r","P","r","o","f","i","l","e",":"," ">>

\* 'validation error for ApplicationResult'
MsgValidationError ==
    <<"v","a","l","i","d","a","t","i","o","n"," ","e","r","r","o","r"," ","f","o","r"," ","A",
    "p","p","l","i","c","a","t","i","o","n","R","e","s","u","l","t">>

\* 'Missing required environment variables: USER_ID, JOB_ID, APPLICATION_ID'
MsgMissingIds ==
    <<"M","i","s","s","i","n","g"," ","r","e","q","u","i","r","e","d"," ","e","n","v","i","r",
    "o","n","m","e","n","t"," ","v","a","r","i","a","b","l","e","s",":"," ","U","S","E","R","_",
    "I","D",","," ","J","O","B","_","I","D",","," ","A","P","P","L","I","C","A","T","I","O","N",
    "_","I","D">>

\* 'Missing required user profile fields: '
MsgMissingUserFields ==
    <<"M","i","s","s","i","n","g"," ","r","e","q","u","i","r","e","d"," ","u","s","e","r"," ",
    "p","r","o","f","i","l","e"," ","f","i","e","l","d","s",":"," ">>

\* 'Missing required job data fields: '
MsgMissingJobFields ==
    <<"M","i","s","s","i","n","g"," ","r","e","q","u","i","r","e","d"," ","j","o","b"," ","d",
    "a","t","a"," ","f","i","e","l","d","s",":"," ">>

\* "local variable 'application_id' referenced before assignment"
MsgUnbound ==
    <<"l","o","c","a","l"," ","v","a","r","i","a","b","l","e"," ","'","a","p","p","l","i","c",
    "a","t","i","o","n","_","i","d","'"," ","r","e","f","e","r","e","n","c","e","d"," ","b","e",
    "f","o","r","e"," ","a","s","s","i","g","n","m","e","n","t">>

\* "'title'"
MsgKeyTitle ==
    <<"'","t","i","t","l","e","'">>

\* 'Expecting value: line 1 column 1 (char 0)'
MsgJsonDecode ==
    <<"E","x","p","e","c","t","i","n","g"," ","v","a","l","u","e",":"," ","l","i","n","e"," ",
    "1"," ","c","o","l","u","m","n"," ","1"," ","(","c","h","a","r"," ","0",")">>

\* 'Import error: '
MsgImportError ==
    <<"I","m","p","o","r","t"," ","e","r","r","o","r",":"," ">>

\* "Can't instantiate abstract class BaseJobAutomation"
MsgAbstract ==
    <<"C","a","n","'","t"," ","i","n","s","t","a","n","t","i","a","t","e"," ","a","b","s","t",
    "r","a","c","t"," ","c","l","a","s","s"," ","B","a","s","e","J","o","b","A","u","t","o","m",
    "a","t","i","o","n">>

\* 'server_automation'
NameServerAutomation ==
    <<"s","e","r","v","e","r","_","a","u","t","o","m","a","t","i","o","n">>

\* 'desktop_automation'
NameDesktopAutomation ==
    <<"d","e","s","k","t","o","p","_","a","u","t","o","m","a","t","i","o","n">>

\* a job_id key whose value is None, and a dict without the key
NullId == "<None>"
MissingKey == "<missing>"
\* the value of a text key the dict does not have
Missing == <<"<missing>">>

\* str.startswith
StartsWith(s, prefix) == MatchAt(s, prefix, 1)
\* ''.join(filter(str.isdigit, v)), its length
DigitCount(v) == Cardinality({i \in DOMAIN v : v[i] \in Digits})
\* dict.get(key) is truthy
Given(v) == v # Missing /\ Truthy(v)

\* the same without the count of the digits of the phone number
UserProfileAccepts_AnyPhone(d) ==
    /\ d.first_name # None
    /\ d.last_name # None
    /\ d.email # None
    /\ Contains(d.email, <<"@">>)
    /\ d.phone # None
    /\ Truthy(d.phone)
\* UserProfile(**data) passes validation: the required strings, an address
\* with an @, a phone number with at least ten digits
UserProfileAccepts(d) ==
    /\ d.first_name # None
    /\ d.last_name # None
    /\ d.email # None
    /\ Contains(d.email, <<"@">>)
    /\ d.phone # None
    /\ Truthy(d.phone)
    /\ DigitCount(d.phone) >= 10

\* JobData(**data) passes validation
JobDataAccepts(d) ==
    /\ d.job_id \notin {NullId, MissingKey}
    /\ d.title \notin {None, Missing}
    /\ d.company \notin {None, Missing}
    /\ d.apply_url \notin {None, Missing}
    /\ StartsWith(d.apply_url, SchemeHttp) \/ StartsWith(d.apply_url, SchemeHttps)

\* AutomationEngine.detect_company_type
detect_company_type(job_url) ==
    LET url_lower == Lower(job_url)
    IN  IF Contains(url_lower, PatLinkedinCom) THEN "linkedin"
        ELSE IF Contains(url_lower, PatGreenhouseIo)
                \/ Contains(url_lower, PatBoardsGreenhouseIo) THEN "greenhouse"
        ELSE IF Contains(url_lower, PatLeverCo) \/ Contains(url_lower, PatJobsLeverCo)
        THEN "lever"
        ELSE IF Contains(url_lower, PatMyWorkdayJobs) \/ Contains(url_lower, PatWorkdayCom)
        THEN "workday"
        ELSE IF Contains(url_lower, PatIndeedCom) THEN "indeed"
        ELSE IF Contains(url_lower, PatBambooHr) THEN "bamboohr"
        ELSE "generic"

\* 'myworkday.com'
PatMyWorkdayCom ==
    <<"m","y","w","o","r","k","d","a","y",".","c","o","m">>

\* 'jobvite.com'
PatJobviteCom ==
    <<"j","o","b","v","i","t","e",".","c","o","m">>


\* str.lower() of a job_board override
BoardLower(b) ==
    CASE b = "Lever" -> "lever"
      [] b = "Greenhouse" -> "greenhouse"
      [] OTHER -> b

\* JobData.get_company_identifier; job_board is None or the name of a board
get_company_identifier(d) ==
    IF d.job_board # "None" THEN BoardLower(d.job_board)
    ELSE LET url_lower == Lower(d.apply_url)
         IN  IF Contains(url_lower, PatGreenhouseIo) THEN "greenhouse"
             ELSE IF Contains(url_lower, PatLeverCo) THEN "lever"
             ELSE IF Contains(url_lower, PatMyWorkdayCom) \/ Contains(url_lower, PatWorkdayCom)
             THEN "workday"
             ELSE IF Contains(url_lower, PatLinkedinCom) THEN "linkedin"
             ELSE IF Contains(url_lower, PatIndeedCom) THEN "indeed"
             ELSE IF Contains(url_lower, PatJobviteCom) THEN "jobvite"
             ELSE "generic"
\* AutomationEngine._register_automations: the keys of self.automations
RegisteredAutomations == {"linkedin", "greenhouse", "generic"}
\* self.automations.get(company_type), with the generic fallback
AutomationClass(company_type) ==
    IF company_type \in RegisteredAutomations THEN company_type ELSE "generic"
\* 'generic' is BaseJobAutomation itself, an abstract class: it has no instances
Instantiable(class) == class # "generic"

\* the results apply_to_job of a handler hands back: submitted with a
\* confirmation, failed, blocked by a captcha
HandlerResults(job_id, class) ==
    LET r == add_step(add_step(NewResult(job_id, "FAILED", FALSE, 0, company_name(class), 5),
                               "initialize", TRUE, <<>>), "execute", TRUE, <<>>)
    IN  {set_completed(r, "SUCCESS", CONF123, 0),
         set_failed(r, MsgUnclear, NoKind, "FAILED", 0),
         set_completed(r, "CAPTCHA_REQUIRED", None, 0)}

\* BaseJobAutomation.apply and the metadata of AutomationEngine.execute:
\* result.to_dict() with three more keys
EngineResult(r, company_type, mode) ==
    r @@ [execution_time_ms |-> 0, company_type |-> company_type, mode |-> mode]
\* the dict AutomationEngine.execute returns from its except clause
EngineFailure(msg, company_type, mode) ==
    [success |-> FALSE, error |-> msg, error_type |-> "TypeError", logs |-> <<msg>>,
     screenshots |-> <<>>, execution_time_ms |-> 0, company_type |-> company_type,
     mode |-> mode, status |-> "FAILED"]

\* ApplicationResult.to_dict: self.dict(exclude_none=False), every field of the
\* object under its name (the history field is not one)
to_dict(r) == [k \in DOMAIN r \ {"terminal_transitions"} |-> r[k]]
\* the required fields of ApplicationResult
RequiredResultFields == {"job_id", "status", "success", "started_at", "company_automation"}
\* ApplicationResult.from_dict(data) passes validation
ResultAccepts(data) ==
    /\ RequiredResultFields \subseteq DOMAIN data
    /\ data.status \in ApplicationStatus
    /\ success_matches_status(data.status, data.success)
\* ApplicationResult.from_dict(data): a new object with the model's fields
from_dict(data) ==
    [k \in DOMAIN NewResult("", "FAILED", FALSE, 0, <<>>, 0) |->
        IF k = "terminal_transitions" THEN 0 ELSE data[k]]

\* ApplicationStatus.value
StatusValue(status) ==
    CASE status = "SUCCESS" -> "success"
      [] status = "FAILED" -> "failed"
      [] status = "CAPTCHA_REQUIRED" -> "captcha_required"
      [] status = "LOGIN_REQUIRED" -> "login_required"
      [] status = "TIMEOUT" -> "timeout"
      [] status = "RATE_LIMITED" -> "rate_limited"
      [] status = "FORM_ERROR" -> "form_error"
      [] status = "NETWORK_ERROR" -> "network_error"
      [] status = "UNKNOWN_ERROR" -> "unknown_error"

\* the JSON object the scripts print for a result
ResultJson(r, script) ==
    [success |-> r.success, confirmation_number |-> r.confirmation_number,
     execution_time_ms |-> IF r.total_duration_ms = NoTime THEN 0 ELSE r.total_duration_ms,
     company_automation |-> r.company_automation, status |-> StatusValue(r.status),
     error_message |-> r.error_message, steps |-> r.steps, screenshots |-> r.screenshots,
     captcha_events |-> r.captcha_events, steps_completed |-> r.steps_completed]
\* the JSON object the scripts print from their except clauses
ErrorJson(msg) ==
    [success |-> FALSE, confirmation_number |-> None, execution_time_ms |-> 0,
     company_automation |-> <<"u","n","k","n","o","w","n">>, status |-> "failed",
     error_message |-> msg, steps |-> <<>>, screenshots |-> <<>>, captcha_events |-> <<>>,
     steps_completed |-> 0]

----------------------------------------------------------------------------
(* State *)

VARIABLES
    pc,         \* position of the caller: in apply_to_job, or "api" for a client
                \* of ApplicationResult
    handler,    \* the handler the attempt runs on
    job,        \* JobData: job_id, apply_url
    profile,    \* UserProfile
    context,    \* ExecutionContext: whether llm and browser_profile are set
    result,     \* self.result
    returned,   \* the value apply_to_job returned
    now,        \* the last reading of the clock
    session,    \* the browser session: created, started, stop() calls, page reads
    agent,      \* the agent capability: run() calls, final result text, memory
    page_text,  \* the visible text of the page the agent left the browser on
    exc,        \* the exception in flight, or the one an API call raised
    raised,     \* history: the exceptions raised so far, [at, msg]
    manager,    \* a ProxyManager: proxies, current_index
    twin,       \* a second ProxyManager that gets the same calls, scores apart
    last,       \* history: the last call on the manager and what it returned
    rotation,   \* history: the get_next_proxy calls since the pool was modified
    marks,      \* history: the number of mark_proxy_* calls so far
    threads,    \* the callers that share the manager, each inside one call
    request,    \* the arguments of the call under way and what it finds around it
    host        \* a host-bridge process: its script, stdout, exit code

\* the state of the proxy pool, its callers and the host-bridge process
pool_vars == <<manager, twin, last, rotation, marks, threads, request, host>>

vars == <<pc, handler, job, profile, context, result, returned, now, session,
          agent, page_text, exc, raised, pool_vars>>

Urls == {UrlGreenhouse, UrlLinkedIn, UrlGeneric, UrlExample}

\* UserProfile instances that pass construction (phone with >= 10 digits,
\* a well-formed email)
Profiles ==
    { [first_name |-> John, last_name |-> Doe, email |-> Email, phone |-> Phone,
       resume_local_path |-> CvPdf, resume_url |-> None],
      [first_name |-> Blank, last_name |-> Doe, email |-> Email, phone |-> Phone,
       resume_local_path |-> CvPdf, resume_url |-> None],
      [first_name |-> John, last_name |-> Doe, email |-> Email, phone |-> Phone,
       resume_local_path |-> None, resume_url |-> None],
      [first_name |-> John, last_name |-> Doe, email |-> Email, phone |-> Phone,
       resume_local_path |-> GonePdf, resume_url |-> CvUrl],
      [first_name |-> John, last_name |-> Doe, email |-> Email, phone |-> Phone,
       resume_local_path |-> CvTxt, resume_url |-> None] }

\* history.final_result() of the agent
FinalResults ==
    {None, FinalSuccessConf, FinalCaptcha, FinalErrorIncomplete, FinalNoMarker,
     FinalSubmittedRef}
\* str(agent.memory), None when the agent has no memory
Memories ==
    {None, MemSuccessConf, MemSuccessBare, MemCaptcha, MemCaptchaLower, MemError,
     MemFailed, MemCaptchaConfirmation, MemNoMarker}
\* the visible text of the final page
Pages == {PageMock, PageThankYou, PageSubmitted, PageCaptcha}
\* str(e) of the exceptions the collaborators raise
Exceptions == {ExcBoom, ExcTimeout}

NoSession == [created |-> FALSE, started |-> FALSE, stop_calls |-> 0, page_reads |-> 0]
NoAgent == [runs |-> 0, final_result |-> None, memory |-> None]

\* no call on the manager yet
NoCall ==
    [op |-> "none", args |-> <<>>, repeat |-> FALSE, before |-> NewProxyManager,
     raises |-> NoKind, ret |-> NoProxy, twin_ret |-> NoProxy, candidates |-> {},
     twin_candidates |-> {}]
NoRotation == [start |-> 0, returns |-> <<>>, raised |-> FALSE]
\* no call under way
NoRequest == [absent |-> TRUE]
\* no host-bridge process
NoHost == [absent |-> TRUE]

\* no proxy pool in use, no host-bridge process
NoPool ==
    /\ manager = NewProxyManager
    /\ twin = NewProxyManager
    /\ last = NoCall
    /\ rotation = NoRotation
    /\ marks = 0
    /\ threads = <<>>
    /\ request = NoRequest
    /\ host = NoHost

\* the state before apply_to_job is called
Init ==
    /\ NoPool
    /\ pc = "call"
    /\ handler \in Handlers
    /\ job \in [job_id : {"job1"}, apply_url : Urls]
    /\ profile \in Profiles
    /\ context \in [llm : BOOLEAN, browser_profile : BOOLEAN]
    /\ result = NoResult
    /\ returned = NoResult
    /\ now = 0
    /\ session = NoSession
    /\ agent = NoAgent
    /\ page_text = None
    /\ exc = None
    /\ raised = <<>>

Raise(at, msg) == Append(raised, [at |-> at, msg |-> msg])

----------------------------------------------------------------------------
(* apply_to_job *)

\* a retry: an exception inside the inner try block runs the agent again
InnerTryHandler_Retry == "run"
\* no finally clause: an exception goes straight to the except clause
InnerTryHandler_NoFinally == "except"
\* where an exception raised inside the inner try block goes: its finally clause
InnerTryHandler == "finally"

\* where control goes when the base apply_to_job returns: back into the
\* overriding handler, or to the caller
AfterBase(h) == IF OverridesApply(h) THEN "metadata" ELSE "done"

\* the keys the overriding handlers add to performance_metrics
HandlerMetrics(h) ==
    IF h = "greenhouse"
    THEN {"greenhouse_version", "execution_mode", "url_pattern_matched",
          "form_complexity", "user_profile_completeness"}
    ELSE {"linkedin_version", "execution_mode", "url_pattern_matched",
          "easy_apply_compatible", "user_profile_completeness"}

\* the steps that count as success indicators when the status is still FAILED
StepIndicators(r) ==
    {i \in DOMAIN r.steps :
        r.steps[i].success /\ Contains(Lower(r.steps[i].agent_result), KwSuccess)}

\* GreenhouseAutomation.apply_to_job / LinkedInAutomation.apply_to_job up to the
\* call of the base class
ValidateInputs ==
    /\ pc = "call"
    /\ OverridesApply(handler)
    /\ IF ~can_handle_url(handler, job.apply_url)
       THEN \E t0 \in Readings(now) : \E t1 \in Readings(t0) :
               /\ returned' = create_failed_result(job.job_id, company_name(handler),
                                  InvalidUrlMessage(handler, job.apply_url),
                                  "INVALID_URL", t0, t1)
               /\ now' = t1
               /\ pc' = "done"
       ELSE IF _validate_user_profile(handler, profile) # <<>>
       THEN \E t0 \in Readings(now) : \E t1 \in Readings(t0) :
               /\ returned' = create_failed_result(job.job_id, company_name(handler),
                                  MsgValidationFailed \o
                                      Join(MsgJoin, _validate_user_profile(handler, profile)),
                                  "VALIDATION_ERROR", t0, t1)
               /\ now' = t1
               /\ pc' = "done"
       ELSE /\ pc' = "super"
            /\ UNCHANGED <<returned, now>>
    /\ UNCHANGED <<pool_vars, handler, job, profile, context, result, session, agent,
                   page_text, exc, raised>>

\* BaseJobAutomation.apply_to_job: the result object, the URL check and _get_llm
BeginAttempt ==
    /\ pc = "super" \/ (pc = "call" /\ ~OverridesApply(handler))
    /\ \E t \in Readings(now) :
          /\ now' = t
          /\ result' = NewResult(job.job_id, "FAILED", FALSE, t, company_name(handler), 5)
    /\ IF ~can_handle_url(handler, job.apply_url)
       THEN /\ exc' = MsgUrl \o job.apply_url \o MsgNotSupportedBy
                          \o company_name(handler) \o MsgAutomation
            /\ raised' = Raise("validate", exc')
            /\ pc' = "except"
       ELSE IF ~context.llm
       THEN /\ exc' = MsgLlmMissing
            /\ raised' = Raise("llm", exc')
            /\ pc' = "except"
       ELSE /\ pc' = "create_session"
            /\ UNCHANGED <<exc, raised>>
    /\ UNCHANGED <<pool_vars, handler, job, profile, context, returned, session, agent, page_text>>

\* self._create_browser_session()
CreateSession ==
    /\ pc = "create_session"
    /\ IF ~context.browser_profile
       THEN /\ exc' = MsgProfileMissing
            /\ raised' = Raise("session", exc')
            /\ pc' = "except"
            /\ UNCHANGED session
       ELSE /\ session' = [session EXCEPT !.created = TRUE]
            /\ pc' = "start"
            /\ UNCHANGED <<exc, raised>>
    /\ UNCHANGED <<pool_vars, handler, job, profile, context, result, returned, now, agent, page_text>>

\* await browser_session.start()
StartBrowser ==
    /\ pc = "start"
    /\ \/ /\ session' = [session EXCEPT !.started = TRUE]
          /\ pc' = "agent"
          /\ UNCHANGED <<exc, raised>>
       \/ \E e \in Exceptions :
             /\ exc' = e
             /\ raised' = Raise("start", e)
             /\ pc' = InnerTryHandler
             /\ UNCHANGED session
    /\ UNCHANGED <<pool_vars, handler, job, profile, context, result, returned, now, agent, page_text>>

\* get_company_specific_task, Agent(...) and the initialize step
CreateAgent ==
    /\ pc = "agent"
    /\ \/ /\ result' = add_step(result, "initialize", TRUE, <<>>)
          /\ pc' = "run"
          /\ UNCHANGED <<exc, raised>>
       \/ \E e \in Exceptions :
             /\ exc' = e
             /\ raised' = Raise("agent", e)
             /\ pc' = InnerTryHandler
             /\ UNCHANGED result
    /\ UNCHANGED <<pool_vars, handler, job, profile, context, returned, now, session, agent, page_text>>

\* await agent.run(...) and the execute step; the agent returns its transcript
\* and leaves the browser on its final page
RunAgentWith(finals, memories, pages) ==
    /\ pc = "run"
    /\ \/ \E f \in finals : \E m \in memories : \E text \in pages :
             /\ agent' = [runs |-> agent.runs + 1, final_result |-> f, memory |-> m]
             /\ page_text' = text
             /\ result' = add_step(result, "execute", TRUE, <<>>)
             /\ pc' = "process"
             /\ UNCHANGED <<exc, raised>>
       \/ \E e \in Exceptions :
             /\ agent' = [agent EXCEPT !.runs = @ + 1]
             /\ exc' = e
             /\ raised' = Raise("run", e)
             /\ pc' = InnerTryHandler
             /\ UNCHANGED <<result, page_text>>
    /\ UNCHANGED <<pool_vars, handler, job, profile, context, returned, now, session>>

RunAgent == RunAgentWith(FinalResults, Memories, Pages)

\* _process_automation_result over the agent history and memory; an exception
\* is caught inside it
ProcessTranscript ==
    /\ pc = "process"
    /\ \/ /\ UNCHANGED raised
          /\ LET o == ClassifyTranscript(agent.final_result, agent.memory)
             IN  IF o.kind = "page"
                 THEN /\ pc' = "page"
                      /\ UNCHANGED <<result, now>>
                 ELSE \E t \in Readings(now) :
                         /\ now' = t
                         /\ result' = ApplyOutcome(result, o, t)
                         /\ pc' = "screenshot"
       \/ \E e \in Exceptions : \E t \in Readings(now) :
             /\ now' = t
             /\ result' = set_failed(result, MsgProcessingFailed \o e,
                                     "PROCESSING_ERROR", "FAILED", t)
             /\ raised' = Raise("classify", e)
             /\ pc' = "screenshot"
    /\ UNCHANGED <<pool_vars, handler, job, profile, context, returned, session, agent, page_text, exc>>

\* _process_automation_result, the default branch: the final page's text
ProcessPage ==
    /\ pc = "page"
    /\ \/ \E t \in Readings(now) :
             /\ session' = [session EXCEPT !.page_reads = @ + 1]
             /\ now' = t
             /\ result' = ApplyOutcome(result, ClassifyPage(page_text), t)
             /\ UNCHANGED raised
       \/ \E e \in Exceptions : \E t \in Readings(now) :
             /\ now' = t
             /\ result' = set_failed(result, MsgProcessingFailed \o e,
                                     "PROCESSING_ERROR", "FAILED", t)
             /\ raised' = Raise("classify", e)
             /\ UNCHANGED session
    /\ pc' = "screenshot"
    /\ UNCHANGED <<pool_vars, handler, job, profile, context, returned, agent, page_text, exc>>

\* _take_screenshot: the path, or "" when taking it failed
TakeScreenshot ==
    /\ pc = "screenshot"
    /\ \E final_screenshot \in {"final_result.png", ""} :
          result' = IF final_screenshot # ""
                    THEN [result EXCEPT !.screenshots = Append(@, final_screenshot)]
                    ELSE result
    /\ pc' = "finally"
    /\ UNCHANGED <<pool_vars, handler, job, profile, context, returned, now, session, agent,
                   page_text, exc, raised>>

\* finally: await browser_session.stop()
StopSession ==
    /\ pc = "finally"
    /\ session' = [session EXCEPT !.stop_calls = @ + 1]
    /\ \/ /\ pc' = IF exc = None THEN "finalize" ELSE "except"
          /\ UNCHANGED <<exc, raised>>
       \/ \E e \in Exceptions :
             /\ exc' = e
             /\ raised' = Raise("stop", e)
             /\ pc' = "except"
    /\ UNCHANGED <<pool_vars, handler, job, profile, context, result, returned, now, agent, page_text>>

\* "Finalize result" and return self.result
Finalize ==
    /\ pc = "finalize"
    /\ IF result.status = "FAILED"
       THEN \E t \in Readings(now) :
               /\ now' = t
               /\ result' = IF StepIndicators(result) # {}
                            THEN set_completed(result, "SUCCESS", None, t)
                            ELSE set_failed(result, MsgUnclear, NoKind, "FAILED", t)
       ELSE UNCHANGED <<result, now>>
    /\ returned' = result'
    /\ pc' = AfterBase(handler)
    /\ UNCHANGED <<pool_vars, handler, job, profile, context, session, agent, page_text, exc, raised>>

\* except Exception as e
HandleException ==
    /\ pc = "except"
    /\ \E t \in Readings(now) :
          /\ now' = t
          /\ result' = set_failed(result, MsgAutomationFailed \o exc,
                                  "AUTOMATION_ERROR", "FAILED", t)
    /\ returned' = result'
    /\ exc' = None
    /\ pc' = AfterBase(handler)
    /\ UNCHANGED <<pool_vars, handler, job, profile, context, session, agent, page_text, raised>>

\* the overriding handlers after super().apply_to_job(): performance metrics
AddMetadata ==
    /\ pc = "metadata"
    /\ result' = [result EXCEPT !.performance_metrics = @ \cup HandlerMetrics(handler)]
    /\ returned' = result'
    /\ pc' = "done"
    /\ UNCHANGED <<pool_vars, handler, job, profile, context, now, session, agent, page_text,
                   exc, raised>>

Next ==
    \/ ValidateInputs
    \/ BeginAttempt
    \/ CreateSession
    \/ StartBrowser
    \/ CreateAgent
    \/ RunAgent
    \/ ProcessTranscript
    \/ ProcessPage
    \/ TakeScreenshot
    \/ StopSession
    \/ Finalize
    \/ HandleException
    \/ AddMetadata

Spec == Init /\ [][Next]_vars

----------------------------------------------------------------------------
(* A client of ApplicationResult: construction, then terminal transitions *)

InitResult ==
    /\ NoPool
    /\ pc = "api"
    /\ handler = "test"
    /\ job = [job_id |-> "job1", apply_url |-> UrlExample]
    /\ profile = [first_name |-> John, last_name |-> Doe, email |-> Email,
                  phone |-> Phone, resume_local_path |-> CvPdf, resume_url |-> None]
    /\ context = [llm |-> TRUE, browser_profile |-> TRUE]
    /\ result = NoResult
    /\ returned = NoResult
    /\ now = 0
    /\ session = NoSession
    /\ agent = NoAgent
    /\ page_text = None
    /\ exc = None
    /\ raised = <<>>

\* ApplicationResult(status=..., success=...): the validator rejects a success
\* flag that does not match the status, and then there is no instance
Construct ==
    /\ pc = "api"
    /\ result = NoResult
    /\ \E status \in ApplicationStatus : \E success \in BOOLEAN : \E t \in Readings(now) :
          /\ success_matches_status(status, success)
          /\ now' = t
          /\ result' = NewResult(job.job_id, status, success, t, company_name(handler), 0)
    /\ UNCHANGED <<pool_vars, pc, handler, job, profile, context, returned, session, agent,
                   page_text, exc, raised>>

\* result.set_completed(status, confirmation_number)
SetCompleted ==
    /\ pc = "api"
    /\ result # NoResult
    /\ result.terminal_transitions < MaxCalls
    /\ \E status \in ApplicationStatus : \E confirmation_number \in {None, CONF123} :
       \E t \in Readings(now) :
          /\ now' = t
          /\ result' = set_completed(result, status, confirmation_number, t)
    /\ UNCHANGED <<pool_vars, pc, handler, job, profile, context, returned, session, agent,
                   page_text, exc, raised>>

\* result.set_failed(error_message, error_type, status)
SetFailed ==
    /\ pc = "api"
    /\ result # NoResult
    /\ result.terminal_transitions < MaxCalls
    /\ \E error_message \in {ExcBoom, MsgUnknownError} :
       \E error_type \in {NoKind, "FORM_ERROR"} :
       \E status \in ApplicationStatus : \E t \in Readings(now) :
          /\ now' = t
          /\ result' = set_failed(result, error_message, error_type, status, t)
    /\ UNCHANGED <<pool_vars, pc, handler, job, profile, context, returned, session, agent,
                   page_text, exc, raised>>

NextResult == Construct \/ SetCompleted \/ SetFailed

SpecResult == InitResult /\ [][NextResult]_vars

----------------------------------------------------------------------------
(* A client of ProxyManager: pool maintenance, selection and marking *)

\* the pool holds at most MaxPool entries
MaxPool == 2
\* at most MaxMarks mark_proxy_* calls in a run of the pool client
MaxMarks == 2

\* the keyword arguments of add_proxy
ProxyArgs ==
    { [host |-> HostP1, port |-> 8080, username |-> None, password |-> None,
       type |-> TypeHttp, country |-> "US"],
      [host |-> HostP2, port |-> 3128, username |-> ProxyUser, password |-> ProxyPass,
       type |-> TypeSocks5, country |-> "UK"] }
Countries == {"US", "UK", "CA"}

\* no attempt of apply_to_job is under way; the caller is at `label`
NoAttempt(label) ==
    /\ pc = label
    /\ handler = "test"
    /\ job = [job_id |-> "job1", apply_url |-> UrlExample]
    /\ profile = [first_name |-> John, last_name |-> Doe, email |-> Email,
                  phone |-> Phone, resume_local_path |-> CvPdf, resume_url |-> None]
    /\ context = [llm |-> TRUE, browser_profile |-> TRUE]
    /\ result = NoResult
    /\ returned = NoResult
    /\ now = 0
    /\ session = NoSession
    /\ agent = NoAgent
    /\ page_text = None
    /\ exc = None
    /\ raised = <<>>

attempt_vars == <<pc, handler, job, profile, context, result, returned, now, session,
                  agent, page_text, exc, raised>>

\* the record of a call on the manager; repeat: the call before it was the same
\* call with the same arguments
Call(op, args, out, twin_out) ==
    [op |-> op, args |-> args, repeat |-> (last.op = op /\ last.args = args),
     before |-> manager, raises |-> out.raises, ret |-> out.ret, twin_ret |-> twin_out.ret,
     candidates |-> out.candidates, twin_candidates |-> twin_out.candidates]
\* a call that returns nothing
Returns(m) == [raises |-> NoKind, ret |-> NoProxy, candidates |-> {}, manager |-> m]

\* the rotation history after a call that modified the pool
Modified(m) == [start |-> m.current_index, returns |-> <<>>, raised |-> FALSE]
\* the rotation history after get_next_proxy on m: the last Len(pool) + 1 calls
Rotated(m, out) ==
    LET n == Len(m.proxies)
        all == Append(rotation.returns, out.ret)
    IN  IF n = 0 THEN rotation
        ELSE IF out.raises # NoKind THEN [rotation EXCEPT !.raised = TRUE]
        ELSE IF Len(all) > n + 1
             THEN [rotation EXCEPT !.start = (@ + 1) % n, !.returns = Tail(all)]
             ELSE [rotation EXCEPT !.returns = all]

InitProxy ==
    /\ NoAttempt("pool")
    /\ manager = NewProxyManager
    /\ twin = NewProxyManager
    /\ last = NoCall
    /\ rotation = NoRotation
    /\ marks = 0
    /\ threads = <<>>
    /\ request = NoRequest
    /\ host = NoHost

\* manager.add_proxy(**a)
AddProxy ==
    /\ pc = "pool"
    /\ Len(manager.proxies) < MaxPool
    /\ \E a \in ProxyArgs :
          /\ manager' = add_proxy(manager, a.host, a.port, a.username, a.password,
                                  a.type, a.country)
          /\ twin' = add_proxy(twin, a.host, a.port, a.username, a.password,
                               a.type, a.country)
          /\ last' = Call("add_proxy", a, Returns(manager'), Returns(twin'))
          /\ rotation' = Modified(manager')
    /\ UNCHANGED <<attempt_vars, marks, threads, request, host>>

\* manager.remove_proxy(host, port)
RemoveProxy ==
    /\ pc = "pool"
    /\ \E a \in ProxyArgs :
          /\ manager' = remove_proxy(manager, a.host, a.port)
          /\ twin' = remove_proxy(twin, a.host, a.port)
          /\ last' = Call("remove_proxy", <<a.host, a.port>>, Returns(manager'), Returns(twin'))
          /\ rotation' = Modified(manager')
    /\ UNCHANGED <<attempt_vars, marks, threads, request, host>>

\* manager.clear_proxies()
ClearProxies ==
    /\ pc = "pool"
    /\ manager' = clear_proxies(manager)
    /\ twin' = clear_proxies(twin)
    /\ last' = Call("clear_proxies", <<>>, Returns(manager'), Returns(twin'))
    /\ rotation' = Modified(manager')
    /\ UNCHANGED <<attempt_vars, marks, threads, request, host>>

\* manager.get_next_proxy(); an IndexError goes to the caller
GetNextProxy ==
    /\ pc = "pool"
    /\ LET out == get_next_proxy(manager)
           twin_out == get_next_proxy(twin)
       IN  /\ manager' = out.manager
           /\ twin' = twin_out.manager
           /\ last' = Call("get_next_proxy", <<>>,
                           [out EXCEPT !.manager = manager] @@ [candidates |-> {}],
                           twin_out @@ [candidates |-> {}])
           /\ rotation' = Rotated(manager, out)
    /\ UNCHANGED <<attempt_vars, marks, threads, request, host>>

\* manager.get_random_proxy(): random.choice picks any entry
GetRandomProxy ==
    /\ pc = "pool"
    /\ \E ret \in get_random_proxy(manager) :
          last' = Call("get_random_proxy", <<>>,
                       [raises |-> NoKind, ret |-> ret,
                        candidates |-> get_random_proxy(manager)],
                       [ret |-> NoProxy, candidates |-> get_random_proxy(twin)])
    /\ UNCHANGED <<attempt_vars, manager, twin, rotation, marks, threads, request, host>>

\* manager.get_proxy_by_country(country)
GetProxyByCountry ==
    /\ pc = "pool"
    /\ \E country \in Countries : \E ret \in get_proxy_by_country(manager, country) :
          last' = Call("get_proxy_by_country", <<country>>,
                       [raises |-> NoKind, ret |-> ret,
                        candidates |-> get_proxy_by_country(manager, country)],
                       [ret |-> NoProxy, candidates |-> get_proxy_by_country(twin, country)])
    /\ UNCHANGED <<attempt_vars, manager, twin, rotation, marks, threads, request, host>>

\* manager.mark_proxy_failed(host, port); the twin is not told. The pool client
\* makes at most MaxMarks such calls, the marking client any number
MarkProxyFailed ==
    /\ pc \in {"pool", "marking"}
    /\ pc = "pool" => marks < MaxMarks
    /\ \E a \in ProxyArgs :
          /\ manager' = mark_proxy_failed(manager, a.host, a.port)
          /\ last' = Call("mark_proxy_failed", <<a.host, a.port>>, Returns(manager'),
                          Returns(twin))
    /\ marks' = IF pc = "pool" THEN marks + 1 ELSE marks
    /\ UNCHANGED <<attempt_vars, twin, rotation, threads, request, host>>

\* manager.mark_proxy_success(host, port); the twin is not told
MarkProxySuccess ==
    /\ pc \in {"pool", "marking"}
    /\ pc = "pool" => marks < MaxMarks
    /\ \E a \in ProxyArgs :
          /\ manager' = mark_proxy_success(manager, a.host, a.port)
          /\ last' = Call("mark_proxy_success", <<a.host, a.port>>, Returns(manager'),
                          Returns(twin))
    /\ marks' = IF pc = "pool" THEN marks + 1 ELSE marks
    /\ UNCHANGED <<attempt_vars, twin, rotation, threads, request, host>>

NextProxy ==
    \/ AddProxy
    \/ RemoveProxy
    \/ ClearProxies
    \/ GetNextProxy
    \/ GetRandomProxy
    \/ GetProxyByCountry
    \/ MarkProxyFailed
    \/ MarkProxySuccess

SpecProxy == InitProxy /\ [][NextProxy]_vars

----------------------------------------------------------------------------
(* A client that only marks the entries of a pool built by ProxyManager(proxy_list) *)

\* ProxyManager.__init__(proxy_list)
ProxyManagerOf(proxy_list) ==
    LET F[n \in 0..Len(proxy_list)] ==
            IF n = 0 THEN NewProxyManager
            ELSE add_proxy(F[n - 1], proxy_list[n].host, proxy_list[n].port,
                           proxy_list[n].username, proxy_list[n].password,
                           proxy_list[n].type, proxy_list[n].country)
    IN  F[Len(proxy_list)]

ProxyLists == UNION {[1..n -> ProxyArgs] : n \in 0..MaxPool}

InitMarking ==
    /\ NoAttempt("marking")
    /\ \E proxy_list \in ProxyLists : manager = ProxyManagerOf(proxy_list)
    /\ twin = manager
    /\ last = NoCall
    /\ rotation = NoRotation
    /\ marks = 0
    /\ threads = <<>>
    /\ request = NoRequest
    /\ host = NoHost

NextMarking == MarkProxyFailed \/ MarkProxySuccess

SpecMarking == InitMarking /\ [][NextMarking]_vars

----------------------------------------------------------------------------
(* Callers that share one ProxyManager; the methods take no lock, so a caller *)
(* can be preempted between the read and the write of a read-modify-write *)

\* the number of callers
MaxCallers == 2
Callers == 1..MaxCallers

\* the calls a caller can be inside
CallerCalls ==
    {[op |-> "get_next_proxy", host |-> None, port |-> NoPort]}
    \cup {[op |-> op, host |-> a.host, port |-> a.port] :
            op \in {"mark_proxy_failed", "mark_proxy_success"}, a \in ProxyArgs}

\* a caller at the first statement of its call
Enter(call) ==
    [call |-> call, at |-> IF call.op = "get_next_proxy" THEN "fetch" ELSE "load_rate",
     local |-> 0, entry |-> 0, raises |-> NoKind, ret |-> NoProxy]

\* pools whose rotation index a run of get_next_proxy calls can have set
InitCallers ==
    /\ NoAttempt("callers")
    /\ \E proxy_list \in ProxyLists : \E i \in 0..MaxPool :
          /\ i = 0 \/ i < Len(proxy_list)
          /\ manager = [ProxyManagerOf(proxy_list) EXCEPT !.current_index = i]
    /\ twin = manager
    /\ last = [NoCall EXCEPT !.before = manager]
    /\ rotation = NoRotation
    /\ marks = 0
    /\ threads \in [Callers -> {Enter(call) : call \in CallerCalls}]
    /\ request = NoRequest
    /\ host = NoHost

\* get_next_proxy, lines 67-71: the emptiness test and self.proxies[self.current_index]
FetchServer(t) ==
    /\ pc = "callers"
    /\ threads[t].at = "fetch"
    /\ threads' =
          [threads EXCEPT ![t] =
              IF manager.proxies = <<>> THEN [@ EXCEPT !.at = "done"]
              ELSE IF manager.current_index >= Len(manager.proxies)
              THEN [@ EXCEPT !.at = "done", !.raises = "IndexError"]
              ELSE [@ EXCEPT !.at = "load_index", !.ret = Descriptor(NextServer(manager))]]
    /\ UNCHANGED <<attempt_vars, manager, twin, last, rotation, marks, request, host>>

\* get_next_proxy, line 72: self.current_index is read, then len() is called
LoadIndex(t) ==
    /\ pc = "callers"
    /\ threads[t].at = "load_index"
    /\ threads' = [threads EXCEPT ![t].at = "store_index",
                                  ![t].local = manager.current_index]
    /\ UNCHANGED <<attempt_vars, manager, twin, last, rotation, marks, request, host>>

\* get_next_proxy, line 72: the new index is stored; lines 74-81 return
StoreIndex(t) ==
    /\ pc = "callers"
    /\ threads[t].at = "store_index"
    /\ manager' = [manager EXCEPT
                      !.current_index = (threads[t].local + 1) % Len(manager.proxies)]
    /\ threads' = [threads EXCEPT ![t].at = "done"]
    /\ UNCHANGED <<attempt_vars, twin, last, rotation, marks, request, host>>

\* mark_proxy_*, the loop and the read of proxy.success_rate; then max() or
\* min() is called
LoadRate(t) ==
    /\ pc = "callers"
    /\ threads[t].at = "load_rate"
    /\ LET i == Matched(manager, threads[t].call.host, threads[t].call.port)
       IN  threads' =
              [threads EXCEPT ![t] =
                  IF i = 0 THEN [@ EXCEPT !.at = "done"]
                  ELSE [@ EXCEPT !.at = "store_rate", !.entry = i,
                                 !.local = manager.proxies[i].success_rate]]
    /\ UNCHANGED <<attempt_vars, manager, twin, last, rotation, marks, request, host>>

\* mark_proxy_*, the store of proxy.success_rate
StoreRate(t) ==
    /\ pc = "callers"
    /\ threads[t].at = "store_rate"
    /\ manager' =
          [manager EXCEPT !.proxies[threads[t].entry].success_rate =
              IF threads[t].call.op = "mark_proxy_failed"
              THEN rate_after_failure(threads[t].local)
              ELSE rate_after_success(threads[t].local)]
    /\ threads' = [threads EXCEPT ![t].at = "done"]
    /\ UNCHANGED <<attempt_vars, twin, last, rotation, marks, request, host>>

NextCallers ==
    \E t \in Callers :
        \/ FetchServer(t)
        \/ LoadIndex(t)
        \/ StoreIndex(t)
        \/ LoadRate(t)
        \/ StoreRate(t)

SpecCallers == InitCallers /\ [][NextCallers]_vars

----------------------------------------------------------------------------
(* A caller that constructs an ExecutionContext *)

\* the proxy_config arguments: None, two enabled proxies, a disabled one and an
\* enabled one without a host
ProxyConfigs ==
    {NoProxy,
     ProxyConfig(TRUE, HostP1, 8080, None, None, TypeHttp),
     ProxyConfig(TRUE, HostP2, 3128, ProxyUser, ProxyPass, TypeSocks5),
     ProxyConfig(FALSE, HostP1, 8080, None, None, TypeHttp),
     ProxyConfig(TRUE, None, NoPort, None, None, TypeHttp),
     ProxyConfig(TRUE, HostWithScheme, 8080, None, None, TypeHttp)}

ContextRequests ==
    [mode : ExecutionMode, user_profile : [browser_profile_path : {None, ChromeProfile}],
     proxy_config : ProxyConfigs, env : Environments]

InitContext ==
    /\ pc = "construct"
    /\ handler = "test"
    /\ job = [job_id |-> "job1", apply_url |-> UrlExample]
    /\ profile = [first_name |-> John, last_name |-> Doe, email |-> Email,
                  phone |-> Phone, resume_local_path |-> CvPdf, resume_url |-> None]
    /\ context = NoContext(<<>>)
    /\ result = NoResult
    /\ returned = NoResult
    /\ now = 0
    /\ session = NoSession
    /\ agent = NoAgent
    /\ page_text = None
    /\ exc = None
    /\ raised = <<>>
    /\ manager = NewProxyManager
    /\ twin = NewProxyManager
    /\ last = NoCall
    /\ rotation = NoRotation
    /\ marks = 0
    /\ threads = <<>>
    /\ request \in ContextRequests
    /\ host = NoHost

\* context = ExecutionContext(mode=..., user_profile=..., proxy_config=...)
ConstructContext ==
    /\ pc = "construct"
    /\ LET out == ExecutionContext(request.mode, request.user_profile,
                                   request.proxy_config, request.env)
       IN  /\ context' = out.context
           /\ raised' = IF out.raises = NoKind THEN raised
                         ELSE Append(raised, [at |-> "construct", msg |-> out.raises])
           /\ pc' = IF out.raises = NoKind THEN "constructed" ELSE "raised"
    /\ UNCHANGED <<pool_vars, handler, job, profile, result, returned, now, session, agent,
                   page_text, exc>>

NextContext == ConstructContext

SpecContext == InitContext /\ [][NextContext]_vars

----------------------------------------------------------------------------
(* The host bridge as a process: one run of a script from its imports to its *)
(* exit. host.at is the place of the run, host.stdout what it has printed,    *)
(* host.error the exception in flight, host.result what execute_automation   *)
(* returned, host.escaped an exception that left execute_automation           *)

Scripts == {"server", "desktop"}
\* the process has not exited
NoExit == -1

HostUsers ==
    {[first_name |-> John, last_name |-> Doe, email |-> Email, phone |-> Phone],
     [first_name |-> John, last_name |-> Doe, email |-> Email, phone |-> PhoneShort],
     [first_name |-> John, last_name |-> Doe, email |-> None, phone |-> Phone]}
HostJobs ==
    [job_id : {"job1", NullId, MissingKey}, title : {TitleEngineer, Missing},
     company : {CompanyAcme}, apply_url : {UrlGreenhouse, UrlLinkedIn, UrlLever, UrlFtp}]
HostEnvironments ==
    {[google_api_key |-> TRUE, chat_google |-> TRUE, browser_profile |-> TRUE],
     [google_api_key |-> FALSE, chat_google |-> TRUE, browser_profile |-> TRUE],
     [google_api_key |-> TRUE, chat_google |-> TRUE, browser_profile |-> FALSE]}

\* what a run is started with. imports: how the import of the integration
\* module ends; ids: USER_ID, JOB_ID and APPLICATION_ID are all set; source: a
\* readable data file, a data file that is not JSON, or environment variables
\* only. The environment variables carry strings, so a payload with a null or
\* absent key arrives through a data file only
HostRequests ==
    {r \in [script : Scripts, imports : {"ok", "ImportError"}, ids : BOOLEAN,
            source : {"file", "badfile", "env"}, user_profile : HostUsers,
            job_data : HostJobs, proxy_config : {NoProxy} \cup ProxyArgs,
            browser_profile_path : {None, ChromeProfile}, env : HostEnvironments] :
        /\ r.source # "file" => r.job_data.job_id = "job1" /\ r.job_data.title # Missing
        /\ r.script = "server" => r.browser_profile_path = None
        /\ r.script = "desktop" => r.proxy_config = NoProxy
        /\ r.imports # "ok" =>
              /\ r.ids /\ r.source = "env" /\ r.env.google_api_key /\ r.env.browser_profile
              /\ r.user_profile.phone = Phone /\ r.user_profile.email = Email
              /\ r.job_data.apply_url = UrlGreenhouse
              /\ r.proxy_config = NoProxy /\ r.browser_profile_path = None}

NewHost ==
    [at |-> "import", stdout |-> <<>>, exit_code |-> NoExit, error |-> None,
     proxy |-> NoProxy, company_type |-> "", outcome |-> NoResult, result |-> NoResult,
     failed |-> FALSE, escaped |-> FALSE]

InitHost ==
    /\ NoAttempt("host")
    /\ manager = NewProxyManager
    /\ twin = NewProxyManager
    /\ last = NoCall
    /\ rotation = NoRotation
    /\ marks = 0
    /\ threads = <<>>
    /\ request \in HostRequests
    /\ host = NewHost

host_frame == <<pc, handler, job, profile, result, returned, now, session, agent,
                page_text, exc, raised, twin, last, rotation, marks, threads, request>>

\* a line on stdout
JsonLine(object) == [json |-> TRUE, object |-> object]
TextLine == [json |-> FALSE]

\* raise inside main's try, inside execute_automation's try
RaiseInMain(h, msg) == [h EXCEPT !.at = "except", !.error = msg]
RaiseInIntegration(h, msg) ==
    [h EXCEPT !.at = "integration_except", !.error = msg, !.failed = TRUE]

\* the imports at the top of the script. run_server_automation.py catches
\* ImportError, prints the error object and exits 1; run_desktop_automation.py
\* imports unguarded, so the interpreter prints a traceback on stderr and exits 1
ImportModules ==
    /\ host.at = "import"
    /\ host' =
         IF request.imports = "ok" THEN [host EXCEPT !.at = "main"]
         ELSE IF request.script = "server"
         THEN [host EXCEPT !.at = "exited", !.error = MsgImportError, !.exit_code = 1,
                           !.stdout = Append(@, JsonLine(ErrorJson(MsgImportError)))]
         ELSE [host EXCEPT !.at = "exited", !.error = MsgImportError, !.exit_code = 1]
    /\ UNCHANGED <<host_frame, context, manager>>

\* run_server_automation.main up to the call of execute_server_automation
ReadInputsServer ==
    /\ host.at = "main"
    /\ request.script = "server"
    /\ host' =
         IF ~request.ids THEN RaiseInMain(host, MsgMissingIds)
         ELSE IF \E f \in {"first_name", "last_name", "email", "phone"} :
                    ~Given(request.user_profile[f])
         THEN RaiseInMain(host, MsgMissingUserFields)
         ELSE IF \E f \in {"title", "company", "apply_url"} : ~Given(request.job_data[f])
         THEN RaiseInMain(host, MsgMissingJobFields)
         ELSE [host EXCEPT !.at = "execute"]
    /\ UNCHANGED <<host_frame, context, manager>>

\* run_desktop_automation.main up to the call of execute_desktop_automation:
\* the data-file branch checks no ids and binds no application_id, and the
\* progress line reads job_data['title']
ReadInputsDesktop ==
    /\ host.at = "main"
    /\ request.script = "desktop"
    /\ host' =
         IF request.source = "badfile" THEN RaiseInMain(host, MsgJsonDecode)
         ELSE IF request.source = "env" /\ ~request.ids
         THEN RaiseInMain(host, MsgMissingIds)
         ELSE IF request.job_data.title = Missing THEN RaiseInMain(host, MsgKeyTitle)
         ELSE [host EXCEPT !.at = "execute"]
    /\ UNCHANGED <<host_frame, context, manager>>

\* execute_server_automation / execute_desktop_automation up to the call of
\* execute_automation: the proxy manager with the one proxy, the integration
\* and its engine, whose _register_automations prints a line
StartIntegration ==
    /\ host.at = "execute"
    /\ manager' = IF request.proxy_config # NoProxy
                  THEN LET p == request.proxy_config
                       IN  add_proxy(NewProxyManager, p.host, p.port, p.username,
                                     p.password, p.type, p.country)
                  ELSE manager
    /\ host' = [host EXCEPT !.at = "convert", !.stdout = Append(@, TextLine)]
    /\ UNCHANGED <<host_frame, context>>

\* execute_automation: UserProfile.from_dict and JobData.from_dict
ConvertModels ==
    /\ host.at = "convert"
    /\ host' =
         IF ~UserProfileAccepts(request.user_profile)
         THEN RaiseInIntegration(host, MsgInvalidUserProfile)
         ELSE IF ~JobDataAccepts(request.job_data)
         THEN RaiseInIntegration(host, MsgInvalidJobData)
         ELSE [host EXCEPT !.at = IF request.script = "server" THEN "proxy" ELSE "context"]
    /\ UNCHANGED <<host_frame, context, manager>>

\* server execute_automation: proxy = self.proxy_manager.get_next_proxy()
AssignProxy ==
    /\ host.at = "proxy"
    /\ IF request.proxy_config = NoProxy
       THEN /\ host' = [host EXCEPT !.at = "context"]
            /\ UNCHANGED manager
       ELSE LET out == get_next_proxy(manager)
            IN  /\ manager' = out.manager
                /\ host' = IF out.raises # NoKind
                           THEN RaiseInIntegration(host, MsgValidationError)
                           ELSE [host EXCEPT !.at = "context", !.proxy = out.ret]
    /\ UNCHANGED <<host_frame, context>>

\* str(e) of what ExecutionContext(...) raises
ContextError(env) ==
    IF ~env.google_api_key THEN MsgNoApiKey
    ELSE IF ~env.chat_google THEN MsgLlmFailed
    ELSE MsgBrowserProfileFailed

\* AutomationEngine.execute up to its try: the ExecutionContext is constructed
\* outside it, so what construction raises leaves the engine
EngineConstructContext ==
    /\ host.at = "context"
    /\ LET mode == IF request.script = "server" THEN "SERVER" ELSE "DESKTOP"
           out == ExecutionContext(mode,
                                   [browser_profile_path |-> request.browser_profile_path],
                                   host.proxy, request.env)
       IN  /\ context' = out.context
           /\ host' = IF out.raises # NoKind
                      THEN RaiseInIntegration(host, ContextError(request.env))
                      ELSE [host EXCEPT !.at = "handler"]
    /\ UNCHANGED <<host_frame, manager>>

\* AutomationEngine.execute, its try and its except: the company type, the
\* class, its instance, apply
EngineRunHandler ==
    /\ host.at = "handler"
    /\ LET company_type == detect_company_type(request.job_data.apply_url)
           class == AutomationClass(company_type)
           mode == IF request.script = "server" THEN "server" ELSE "desktop"
       IN  IF ~Instantiable(class)
           THEN host' = [host EXCEPT !.at = "back", !.company_type = company_type,
                                     !.failed = TRUE,
                                     !.outcome = EngineFailure(MsgAbstract, company_type, mode)]
           ELSE \E r \in HandlerResults(request.job_data.job_id, class) :
                    host' = [host EXCEPT !.at = "back", !.company_type = company_type,
                                         !.failed = ~r.success,
                                         !.outcome = EngineResult(r, company_type, mode)]
    /\ UNCHANGED <<host_frame, context, manager>>

\* execute_automation: result = ApplicationResult.from_dict(result); return
ConvertResult ==
    /\ host.at = "back"
    /\ host' = IF ResultAccepts(host.outcome)
               THEN [host EXCEPT !.at = "emit", !.result = from_dict(host.outcome)]
               ELSE RaiseInIntegration(host, MsgValidationError)
    /\ UNCHANGED <<host_frame, context, manager>>

\* execute_automation, except Exception: create_failed_result with
\* job_data.get('job_id', 'unknown'); job_id is a required str, so a None there
\* raises a ValidationError, in the handler and so out of execute_automation
IntegrationExcept ==
    /\ host.at = "integration_except"
    /\ LET job_id == IF request.job_data.job_id = MissingKey THEN "unknown"
                     ELSE request.job_data.job_id
           name == IF request.script = "server" THEN NameServerAutomation
                   ELSE NameDesktopAutomation
           kind == IF request.script = "server" THEN "SERVER_ERROR" ELSE "DESKTOP_ERROR"
       IN  host' =
             IF job_id = NullId
             THEN [host EXCEPT !.at = "except", !.error = MsgValidationError,
                               !.escaped = TRUE]
             ELSE [host EXCEPT !.at = "emit", !.error = None,
                               !.result = create_failed_result(job_id, name, host.error,
                                                               kind, 0, 0)]
    /\ UNCHANGED <<host_frame, context, manager>>

\* main from the return of the integration to sys.exit. The desktop script
\* evaluates result.application_id or application_id: the result carries no
\* application_id, and the data-file branch has bound no such local
EmitResult ==
    /\ host.at = "emit"
    /\ host' =
         IF request.script = "desktop" /\ request.source = "file"
         THEN RaiseInMain(host, MsgUnbound)
         ELSE [host EXCEPT !.at = "exited",
                           !.stdout = Append(@, JsonLine(ResultJson(host.result,
                                                                    request.script))),
                           !.exit_code = IF host.result.success THEN 0 ELSE 1]
    /\ UNCHANGED <<host_frame, context, manager>>

\* main, except Exception: the error object, sys.exit(1)
ScriptExcept ==
    /\ host.at = "except"
    /\ host' = [host EXCEPT !.at = "exited", !.exit_code = 1,
                            !.stdout = Append(@, JsonLine(ErrorJson(host.error)))]
    /\ UNCHANGED <<host_frame, context, manager>>

NextHost ==
    \/ ImportModules
    \/ ReadInputsServer
    \/ ReadInputsDesktop
    \/ StartIntegration
    \/ ConvertModels
    \/ AssignProxy
    \/ EngineConstructContext
    \/ EngineRunHandler
    \/ ConvertResult
    \/ IntegrationExcept
    \/ EmitResult
    \/ ScriptExcept

SpecHost == InitHost /\ [][NextHost]_vars

----------------------------------------------------------------------------
(* A client of ApplicationResult that also records steps and rebuilds the   *)
(* result from its dictionary                                                *)

\* the statuses the client uses
RecordStatuses == {"SUCCESS", "FAILED", "TIMEOUT"}

InitRecord ==
    /\ NoPool
    /\ NoAttempt("record")

\* ApplicationResult(..., started_at=datetime.now(timezone.utc), total_steps=n)
NewRecord ==
    /\ pc = "record"
    /\ result = NoResult
    /\ \E status \in RecordStatuses : \E total_steps \in 0..1 : \E t \in Readings(now) :
          /\ now' = t
          /\ result' = NewResult(job.job_id, status, status = "SUCCESS", t,
                                 company_name(handler), total_steps)
    /\ UNCHANGED <<pool_vars, pc, handler, job, profile, context, returned, session, agent,
                   page_text, exc, raised>>

\* result.add_step(step_name, action, success)
AddStep ==
    /\ pc = "record"
    /\ result # NoResult
    /\ Len(result.steps) < MaxSteps
    /\ \E success \in BOOLEAN : result' = add_step(result, "step", success, <<>>)
    /\ UNCHANGED <<pool_vars, pc, handler, job, profile, context, returned, now, session,
                   agent, page_text, exc, raised>>

\* result.set_completed(status, confirmation_number)
CompleteRecord ==
    /\ pc = "record"
    /\ result # NoResult
    /\ result.terminal_transitions < MaxCalls
    /\ \E status \in RecordStatuses : \E confirmation_number \in {None, CONF123} :
       \E t \in Readings(now) :
          /\ now' = t
          /\ result' = set_completed(result, status, confirmation_number, t)
    /\ UNCHANGED <<pool_vars, pc, handler, job, profile, context, returned, session, agent,
                   page_text, exc, raised>>

\* result.set_failed(error_message, error_type, status)
FailRecord ==
    /\ pc = "record"
    /\ result # NoResult
    /\ result.terminal_transitions < MaxCalls
    /\ \E status \in RecordStatuses : \E t \in Readings(now) :
          /\ now' = t
          /\ result' = set_failed(result, ExcBoom, "FORM_ERROR", status, t)
    /\ UNCHANGED <<pool_vars, pc, handler, job, profile, context, returned, session, agent,
                   page_text, exc, raised>>

\* result = ApplicationResult.from_dict(result.to_dict()): the constructor runs
\* the validator, and a rejected dictionary leaves no new object
RebuildRecord ==
    /\ pc = "record"
    /\ result # NoResult
    /\ result.terminal_transitions > 0
    /\ LET data == to_dict(result)
       IN  IF ResultAccepts(data)
           THEN /\ result' = from_dict(data)
                /\ UNCHANGED raised
           ELSE /\ raised' = Raise("from_dict", MsgValidationError)
                /\ Len(raised) < 1
                /\ UNCHANGED result
    /\ UNCHANGED <<pool_vars, pc, handler, job, profile, context, returned, now, session,
                   agent, page_text, exc>>

NextRecord == NewRecord \/ AddStep \/ CompleteRecord \/ FailRecord \/ RebuildRecord

SpecRecord == InitRecord /\ [][NextRecord]_vars

----------------------------------------------------------------------------
(* A caller of the two ATS detections: AutomationEngine.detect_company_type  *)
(* on a URL and JobData.get_company_identifier on the descriptor of the same *)
(* job                                                                       *)

\* 'www.linkedin.com'
DomLinkedin ==
    <<"w","w","w",".","l","i","n","k","e","d","i","n",".","c","o","m">>

\* 'boards.greenhouse.io'
DomGreenhouse ==
    <<"b","o","a","r","d","s",".","g","r","e","e","n","h","o","u","s","e",".","i","o">>

\* 'jobs.lever.co'
DomLever ==
    <<"j","o","b","s",".","l","e","v","e","r",".","c","o">>

\* 'acme.myworkdayjobs.com'
DomMyWorkdayJobs ==
    <<"a","c","m","e",".","m","y","w","o","r","k","d","a","y","j","o","b","s",".","c","o","m">>

\* 'acme.workday.com'
DomWorkday ==
    <<"a","c","m","e",".","w","o","r","k","d","a","y",".","c","o","m">>

\* 'www.indeed.com'
DomIndeed ==
    <<"w","w","w",".","i","n","d","e","e","d",".","c","o","m">>

\* 'acme.bamboohr.com'
DomBambooHr ==
    <<"a","c","m","e",".","b","a","m","b","o","o","h","r",".","c","o","m">>

\* 'jobs.jobvite.com'
DomJobvite ==
    <<"j","o","b","s",".","j","o","b","v","i","t","e",".","c","o","m">>

\* 'careers.acme.com'
DomCareers ==
    <<"c","a","r","e","e","r","s",".","a","c","m","e",".","c","o","m">>

\* '/jobs/1'
PathJob ==
    <<"/","j","o","b","s","/","1">>

\* '/r?u=linkedin.com'
PathViaLinkedin ==
    <<"/","r","?","u","=","l","i","n","k","e","d","i","n",".","c","o","m">>

\* '/r?u=GREENHOUSE.IO'
PathViaGreenhouse ==
    <<"/","r","?","u","=","G","R","E","E","N","H","O","U","S","E",".","I","O">>

\* 'grnh.se'
DomGrnhSe ==
    <<"g","r","n","h",".","s","e">>

\* the URLs of the postings: a scheme, a domain and a path, the path with or
\* without the domain of another board in it
DetectUrls ==
    {scheme \o domain \o path :
        scheme \in {SchemeHttp, SchemeHttps},
        domain \in {DomLinkedin, DomGreenhouse, DomLever, DomMyWorkdayJobs, DomWorkday,
                    DomIndeed, DomBambooHr, DomJobvite, DomCareers, DomGrnhSe},
        path \in {PathJob, PathViaLinkedin, PathViaGreenhouse}}

\* the job descriptors: job_board is None ("None") or an explicit override
DetectRequests == [apply_url : DetectUrls, job_board : {"None", "Lever"}]

InitDetect ==
    /\ NoAttempt("detect")
    /\ manager = NewProxyManager
    /\ twin = NewProxyManager
    /\ last = [op |-> "none", ret |-> ""]
    /\ rotation = NoRotation
    /\ marks = 0
    /\ threads = <<>>
    /\ request \in DetectRequests
    /\ host = NoHost

\* engine.detect_company_type(job.apply_url)
DetectCompanyType ==
    /\ pc = "detect"
    /\ last' = [op |-> "detect_company_type", ret |-> detect_company_type(request.apply_url)]
    /\ UNCHANGED <<attempt_vars, manager, twin, rotation, marks, threads, request, host>>

\* job.get_company_identifier()
GetCompanyIdentifier ==
    /\ pc = "detect"
    /\ last' = [op |-> "get_company_identifier", ret |-> get_company_identifier(request)]
    /\ UNCHANGED <<attempt_vars, manager, twin, rotation, marks, threads, request, host>>

NextDetect == DetectCompanyType \/ GetCompanyIdentifier

SpecDetect == InitDetect /\ [][NextDetect]_vars

----------------------------------------------------------------------------
(* Attempts that end blocked: the agent stops at a login wall or the final *)
(* page shows a captcha challenge                                          *)

\* 'Login required: not logged into LinkedIn'
FinalLoginRequired ==
    <<"L","o","g","i","n"," ","r","e","q","u","i","r","e","d",":"," ","n","o","t"," ","l","o",
    "g","g","e","d"," ","i","n","t","o"," ","L","i","n","k","e","d","I","n">>

\* 'LOGIN_REQUIRED: sign in to continue'
MemLoginRequired ==
    <<"L","O","G","I","N","_","R","E","Q","U","I","R","E","D",":"," ","s","i","g","n"," ","i",
    "n"," ","t","o"," ","c","o","n","t","i","n","u","e">>

\* 'Sign in to LinkedIn'
PageLogin ==
    <<"S","i","g","n"," ","i","n"," ","t","o"," ","L","i","n","k","e","d","I","n">>

\* 'Please complete the captcha to continue.'
PageCompleteCaptcha ==
    <<"P","l","e","a","s","e"," ","c","o","m","p","l","e","t","e"," ","t","h","e"," ","c","a",
    "p","t","c","h","a"," ","t","o"," ","c","o","n","t","i","n","u","e",".">>

\* 'login required'
KwLoginRequired ==
    <<"l","o","g","i","n"," ","r","e","q","u","i","r","e","d">>

\* 'login_required'
KwLoginRequiredMark ==
    <<"l","o","g","i","n","_","r","e","q","u","i","r","e","d">>

\* 'captcha'
KwCaptcha ==
    <<"c","a","p","t","c","h","a">>

\* what the agent reports and where it leaves the browser when it is blocked
BlockedFinalResults == {None, FinalLoginRequired, FinalCaptcha}
BlockedMemories == {None, MemLoginRequired, MemCaptcha}
BlockedPages == {PageLogin, PageCompleteCaptcha, PageThankYou}

\* the state before apply_to_job is called on a LinkedIn or Greenhouse handler
\* with a URL the handler accepts and a complete profile
InitBlocked ==
    /\ NoPool
    /\ pc = "call"
    /\ handler \in {"linkedin", "greenhouse"}
    /\ job = [job_id |-> "job1",
              apply_url |-> IF handler = "linkedin" THEN UrlLinkedIn ELSE UrlGreenhouse]
    /\ profile = [first_name |-> John, last_name |-> Doe, email |-> Email,
                  phone |-> Phone, resume_local_path |-> CvPdf, resume_url |-> None]
    /\ context \in [llm : BOOLEAN, browser_profile : BOOLEAN]
    /\ result = NoResult
    /\ returned = NoResult
    /\ now = 0
    /\ session = NoSession
    /\ agent = NoAgent
    /\ page_text = None
    /\ exc = None
    /\ raised = <<>>

RunAgentBlocked == RunAgentWith(BlockedFinalResults, BlockedMemories, BlockedPages)

NextBlocked ==
    \/ ValidateInputs
    \/ BeginAttempt
    \/ CreateSession
    \/ StartBrowser
    \/ CreateAgent
    \/ RunAgentBlocked
    \/ ProcessTranscript
    \/ ProcessPage
    \/ TakeScreenshot
    \/ StopSession
    \/ Finalize
    \/ HandleException
    \/ AddMetadata

SpecBlocked == InitBlocked /\ [][NextBlocked]_vars

----------------------------------------------------------------------------
(* Attempts that overlap on one event loop. Each attempt is a coroutine    *)
(* inside apply_to_job; it runs without a switch from one await to the     *)
(* next. request.instances = 1: the attempts are calls on one handler      *)
(* object; 2: each attempt has the handler object AutomationEngine.execute *)
(* made for it. result.objects[i] is the ApplicationResult attempt i       *)
(* constructed, result.self[k] the object self.result of handler object k  *)
(* refers to (0: None).                                                    *)

Attempts == {1, 2}

\* str(agent.memory) and the final page text of the overlapping attempts
SharedMemories == {None, MemSuccessConf, MemCaptcha}
SharedPages == {PageMock, PageThankYou}
\* str(e) of the exception a collaborator raises
SharedExceptions == {ExcBoom}

\* the handler object attempt i runs on
Self(i) == IF request.instances = 1 THEN 1 ELSE i
\* self.result of the handler object of attempt i
SelfResult(i) == result.objects[result.self[Self(i)]]
\* an update of the object self.result refers to
OnSelfResult(i, o) == [result EXCEPT !.objects[result.self[Self(i)]] = o]

NewAttempt(job_id, url) ==
    [pc |-> "call", job |-> [job_id |-> job_id, apply_url |-> url], exc |-> None,
     memory |-> None, returned |-> 0, wrote |-> 0]

shared_frame == <<pc, handler, job, profile, context, returned, session, agent, page_text,
                  exc, raised, manager, twin, last, rotation, marks, request, host>>

InitShared ==
    /\ pc = "attempts"
    /\ handler \in {"test", "greenhouse"}
    /\ job = [job_id |-> "job1", apply_url |-> UrlExample]
    /\ profile = [first_name |-> John, last_name |-> Doe, email |-> Email,
                  phone |-> Phone, resume_local_path |-> CvPdf, resume_url |-> None]
    /\ context = [llm |-> TRUE, browser_profile |-> TRUE]
    /\ result = [self |-> [k \in Attempts |-> 0], objects |-> [i \in Attempts |-> NoResult]]
    /\ returned = NoResult
    /\ now = 0
    /\ session = NoSession
    /\ agent = NoAgent
    /\ page_text = None
    /\ exc = None
    /\ raised = <<>>
    /\ manager = NewProxyManager
    /\ twin = NewProxyManager
    /\ last = NoCall
    /\ rotation = NoRotation
    /\ marks = 0
    /\ \E urls \in [Attempts -> {UrlExample, UrlGreenhouse}] :
          threads = [i \in Attempts |->
                        NewAttempt(IF i = 1 THEN "job1" ELSE "job2", urls[i])]
    /\ request \in [instances : Attempts]
    /\ host = NoHost

\* return self.result (or the result of create_failed_result): the caller gets
\* a reference to the object, and the overriding handlers update its
\* performance_metrics before they return it
ReturnObject(i, objects, ref) ==
    /\ result' = [result EXCEPT
                     !.objects = IF OverridesApply(handler)
                                 THEN [objects EXCEPT ![ref].performance_metrics =
                                                          @ \cup HandlerMetrics(handler)]
                                 ELSE objects]
    /\ threads' = [threads EXCEPT ![i].pc = "done", ![i].returned = ref,
                                  ![i].exc = None]

\* except Exception as e: self.result.set_failed(...); return self.result
ExceptClause(i, r, e, t) ==
    ReturnObject(i, [r.objects EXCEPT ![r.self[Self(i)]] =
                        set_failed(@, MsgAutomationFailed \o e, "AUTOMATION_ERROR",
                                   "FAILED", t)],
                 r.self[Self(i)])

\* apply_to_job from the call to the first await: the validation of the
\* overriding handlers, self.result = ApplicationResult(...), the URL check,
\* _get_llm, _create_browser_session
AttemptCall(i) ==
    /\ threads[i].pc = "call"
    /\ LET a == threads[i] IN
       \E t0 \in Readings(now) : \E t1 \in Readings(t0) :
          LET created == [result EXCEPT
                             !.objects[i] = NewResult(a.job.job_id, "FAILED", FALSE, t0,
                                                      company_name(handler), 5),
                             !.self[Self(i)] = i]
          IN  IF OverridesApply(handler) /\ ~can_handle_url(handler, a.job.apply_url)
              THEN /\ result' = [result EXCEPT !.objects[i] =
                                    create_failed_result(a.job.job_id, company_name(handler),
                                        InvalidUrlMessage(handler, a.job.apply_url),
                                        "INVALID_URL", t0, t1)]
                   /\ threads' = [threads EXCEPT ![i].pc = "done", ![i].returned = i]
                   /\ now' = t1
              ELSE IF OverridesApply(handler) /\ _validate_user_profile(handler, profile) # <<>>
              THEN /\ result' = [result EXCEPT !.objects[i] =
                                    create_failed_result(a.job.job_id, company_name(handler),
                                        MsgValidationFailed \o
                                            Join(MsgJoin, _validate_user_profile(handler, profile)),
                                        "VALIDATION_ERROR", t0, t1)]
                   /\ threads' = [threads EXCEPT ![i].pc = "done", ![i].returned = i]
                   /\ now' = t1
              ELSE IF ~can_handle_url(handler, a.job.apply_url)
              THEN /\ ExceptClause(i, created,
                                   MsgUrl \o a.job.apply_url \o MsgNotSupportedBy
                                       \o company_name(handler) \o MsgAutomation, t1)
                   /\ now' = t1
              ELSE IF ~context.llm
              THEN ExceptClause(i, created, MsgLlmMissing, t1) /\ now' = t1
              ELSE IF ~context.browser_profile
              THEN ExceptClause(i, created, MsgProfileMissing, t1) /\ now' = t1
              ELSE /\ result' = created
                   /\ threads' = [threads EXCEPT ![i].pc = "start"]
                   /\ now' = t0
    /\ UNCHANGED shared_frame

\* await browser_session.start() returns: the task, the Agent and the
\* initialize step, up to await agent.run(); or start() raises and the finally
\* clause awaits stop()
AttemptStarted(i) ==
    /\ threads[i].pc = "start"
    /\ \/ /\ result' = OnSelfResult(i, add_step(SelfResult(i), "initialize", TRUE, <<>>))
          /\ threads' = [threads EXCEPT ![i].pc = "run", ![i].wrote = @ + 1]
       \/ \E e \in SharedExceptions :
             /\ threads' = [threads EXCEPT ![i].pc = "stop", ![i].exc = e]
             /\ UNCHANGED result
    /\ UNCHANGED <<now, shared_frame>>

\* await agent.run() returns: the execute step and _process_automation_result
\* up to its first await (the page read) or, when the transcript decides, up to
\* the await in _take_screenshot
AttemptRan(i) ==
    /\ threads[i].pc = "run"
    /\ \/ \E m \in SharedMemories :
             LET executed == add_step(SelfResult(i), "execute", TRUE, <<>>)
                 o == ClassifyTranscript(None, m)
             IN  IF o.kind = "page"
                 THEN /\ result' = OnSelfResult(i, executed)
                      /\ threads' = [threads EXCEPT ![i].pc = "page", ![i].memory = m,
                                                    ![i].wrote = @ + 1]
                      /\ UNCHANGED now
                 ELSE \E t \in Readings(now) :
                         /\ now' = t
                         /\ result' = OnSelfResult(i, ApplyOutcome(executed, o, t))
                         /\ threads' = [threads EXCEPT
                                           ![i].pc = "screenshot", ![i].memory = m,
                                           ![i].wrote = @ + (IF o.kind = "completed"
                                                             THEN 2 ELSE 1)]
       \/ \E e \in SharedExceptions :
             /\ threads' = [threads EXCEPT ![i].pc = "stop", ![i].exc = e]
             /\ UNCHANGED <<result, now>>
    /\ UNCHANGED shared_frame

\* the page read of _process_automation_result returns: the classification of
\* the page text; an exception is caught inside _process_automation_result
AttemptReadPage(i) ==
    /\ threads[i].pc = "page"
    /\ \E t \in Readings(now) :
          /\ now' = t
          /\ \/ \E text \in SharedPages :
                   /\ result' = OnSelfResult(i, ApplyOutcome(SelfResult(i),
                                                             ClassifyPage(text), t))
                   /\ threads' = [threads EXCEPT
                                     ![i].pc = "screenshot",
                                     ![i].wrote = @ + (IF ClassifyPage(text).kind = "completed"
                                                       THEN 1 ELSE 0)]
             \/ \E e \in SharedExceptions :
                   /\ result' = OnSelfResult(i, set_failed(SelfResult(i),
                                                 MsgProcessingFailed \o e,
                                                 "PROCESSING_ERROR", "FAILED", t))
                   /\ threads' = [threads EXCEPT ![i].pc = "screenshot"]
    /\ UNCHANGED shared_frame

\* _take_screenshot returns the path, or "" when it failed; then await stop()
AttemptScreenshot(i) ==
    /\ threads[i].pc = "screenshot"
    /\ \E final_screenshot \in {"final_result.png", ""} :
          result' = IF final_screenshot # ""
                    THEN OnSelfResult(i, [SelfResult(i) EXCEPT
                                             !.screenshots = Append(@, final_screenshot)])
                    ELSE result
    /\ threads' = [threads EXCEPT ![i].pc = "stop"]
    /\ UNCHANGED <<now, shared_frame>>

\* await browser_session.stop() returns or raises: "Finalize result" and
\* return self.result, or the except clause
AttemptStopped(i) ==
    /\ threads[i].pc = "stop"
    /\ \E t \in Readings(now) :
          \/ /\ threads[i].exc = None
             /\ IF SelfResult(i).status = "FAILED"
                THEN /\ now' = t
                     /\ ReturnObject(i,
                           [result.objects EXCEPT ![result.self[Self(i)]] =
                               IF StepIndicators(@) # {}
                               THEN set_completed(@, "SUCCESS", None, t)
                               ELSE set_failed(@, MsgUnclear, NoKind, "FAILED", t)],
                           result.self[Self(i)])
                ELSE /\ UNCHANGED now
                     /\ ReturnObject(i, result.objects, result.self[Self(i)])
          \/ /\ threads[i].exc # None
             /\ now' = t
             /\ ExceptClause(i, result, threads[i].exc, t)
          \/ \E e \in SharedExceptions :
                /\ now' = t
                /\ ExceptClause(i, result, e, t)
    /\ UNCHANGED shared_frame

NextShared ==
    \/ \E i \in Attempts : AttemptCall(i)
    \/ \E i \in Attempts : AttemptStarted(i)
    \/ \E i \in Attempts : AttemptRan(i)
    \/ \E i \in Attempts : AttemptReadPage(i)
    \/ \E i \in Attempts : AttemptScreenshot(i)
    \/ \E i \in Attempts : AttemptStopped(i)

SpecShared == InitShared /\ [][NextShared]_vars

----------------------------------------------------------------------------
(* Properties *)

\* the attempt went through the agent run and no collaborator raised
CleanRun == pc = "done" /\ raised = <<>> /\ agent.runs = 1

\* text contains the marker, as written
HasMark(text, mark) == Truthy(text) /\ Contains(text, mark)
\* the transcript is the agent's final result text and its memory
TranscriptHas(mark) == HasMark(agent.final_result, mark) \/ HasMark(agent.memory, mark)
\* CAPTCHA in any letter case
TranscriptHasCaptcha ==
    \/ Truthy(agent.final_result) /\ Contains(Upper(agent.final_result), MarkCAPTCHA)
    \/ Truthy(agent.memory) /\ Contains(Upper(agent.memory), MarkCAPTCHA)

\* C1: for every ApplicationResult, after construction and after any sequence of
\* set_completed / set_failed calls with any ApplicationStatus argument,
\* success == (status == SUCCESS).
C1_SuccessMatchesStatus ==
    result # NoResult => (result.success = (result.status = "SUCCESS"))

\* C2: exactly one terminal transition (set_completed or set_failed) has been
\* applied to the result that apply_to_job returns, on every path.
C2_ExactlyOneTerminalTransition ==
    pc = "done" => returned.terminal_transitions = 1

\* C3: a set_completed or set_failed call on a result that is already finalized
\* fails with an error and leaves status, success, the error fields, the
\* confirmation number and completed_at as the first finalization set them.
C3_RefinalizeFails ==
    [][ (result # NoResult /\ result.completed_at # NoTime /\ (SetCompleted \/ SetFailed))
        => /\ exc' # None
           /\ result'.status = result.status
           /\ result'.success = result.success
           /\ result'.error_message = result.error_message
           /\ result'.error_type = result.error_type
           /\ result'.confirmation_number = result.confirmation_number
           /\ result'.completed_at = result.completed_at ]_vars

\* C4: whenever apply_to_job created a browser session, stop() has been invoked
\* exactly once when the base apply_to_job returns, on every exit path, and it
\* is never invoked twice nor on a session that was not created.
C4_SessionStoppedOnce ==
    /\ session.stop_calls <= 1
    /\ (~session.created) => session.stop_calls = 0
    /\ (pc \in {"metadata", "done"} /\ session.created) => session.stop_calls = 1

\* the agent run raised, and the attempt returned with the session stopped once
C4_Witness ==
    /\ pc = "done"
    /\ session.created
    /\ \E i \in DOMAIN raised : raised[i].at = "run"
    /\ session.stop_calls = 1

\* C5: an exception raised while acquiring the model or the session, running
\* the agent or classifying the outcome (here: the only exception of the run)
\* yields a returned result with status FAILED, error kind AUTOMATION_ERROR and
\* a message containing the original exception message.
C5_ExceptionBecomesAutomationError ==
    (/\ pc = "done"
     /\ Len(raised) = 1
     /\ raised[1].at \in {"llm", "session", "start", "agent", "run", "classify"})
    => /\ returned.status = "FAILED"
       /\ returned.error_type = "AUTOMATION_ERROR"
       /\ Contains(returned.error_message, raised[1].msg)

\* C6: no success, captcha or error marker in the transcript (nor any word the
\* code reads as success in the final result text) and no success keyword in
\* the final page text: the returned result is FAILED with kind UNCLEAR_RESULT.
C6_UnclearResult ==
    (/\ CleanRun
     /\ ~TranscriptHas(MarkSUCCESS) /\ ~TranscriptHas(MarkCONFIRMATION)
     /\ ~(Truthy(agent.final_result) /\ AnyKeyword(agent.final_result, success_keywords))
     /\ ~TranscriptHasCaptcha
     /\ ~TranscriptHas(MarkERROR) /\ ~TranscriptHas(MarkFAILED)
     /\ ~AnyKeyword(page_text, success_indicators))
    => /\ returned.status = "FAILED"
       /\ returned.error_type = "UNCLEAR_RESULT"

\* the status the priority rule of the classification step gives; CONFIRMATION:
\* counts as a success marker, as it does for the code
PriorityRuleStatus ==
    IF TranscriptHas(MarkSUCCESS) \/ TranscriptHas(MarkCONFIRMATION) THEN "SUCCESS"
    ELSE IF TranscriptHasCaptcha THEN "CAPTCHA_REQUIRED"
    ELSE IF TranscriptHas(MarkERROR) \/ TranscriptHas(MarkFAILED) THEN "FORM_ERROR"
    ELSE IF AnyKeyword(page_text, success_indicators) THEN "SUCCESS"
    ELSE "FAILED"

\* C7: the status chosen by outcome classification is the one of the priority
\* rule (SUCCESS:, then CAPTCHA, then ERROR:/FAILED: in the transcript), and the
\* page text is consulted only when the transcript contains no marker.
C7_ClassificationPriority ==
    CleanRun
    => /\ returned.status = PriorityRuleStatus
       /\ session.page_reads > 0
            => /\ ~TranscriptHas(MarkSUCCESS) /\ ~TranscriptHas(MarkCONFIRMATION)
               /\ ~TranscriptHasCaptcha
               /\ ~TranscriptHas(MarkERROR) /\ ~TranscriptHas(MarkFAILED)

\* C8: CAPTCHA in the transcript and no success marker: the returned result is
\* CAPTCHA_REQUIRED with success == False, whatever else the transcript and the
\* final page text contain.
C8_CaptchaRequired ==
    (/\ CleanRun
     /\ TranscriptHas(MarkCAPTCHA)
     /\ ~TranscriptHas(MarkSUCCESS) /\ ~TranscriptHas(MarkCONFIRMATION))
    => /\ returned.status = "CAPTCHA_REQUIRED"
       /\ returned.success = FALSE

\* C9: a valid profile, a Greenhouse URL and `SUCCESS: CONF123` in the agent's
\* final result text or in its memory: the returned result is SUCCESS with
\* confirmation_number exactly CONF123.
C9_SuccessConfirmation ==
    (/\ CleanRun
     /\ handler = "greenhouse"
     /\ TranscriptHas(FinalSuccessConf))
    => /\ returned.status = "SUCCESS"
       /\ returned.confirmation_number = CONF123

\* the error kinds the validation step may report for this attempt
ValidationKinds ==
    (IF ~can_handle_url(handler, job.apply_url) THEN {"INVALID_URL"} ELSE {})
    \cup (IF OverridesApply(handler) /\ _validate_user_profile(handler, profile) # <<>>
          THEN {"VALIDATION_ERROR"} ELSE {})

\* C10: for every handler, a URL that does not match the handler's patterns or
\* a profile that fails its required-field checks yields a finalized FAILED
\* result of kind INVALID_URL or VALIDATION_ERROR, with no browser session
\* created and no step recorded.
C10_ValidationShortCircuits ==
    (pc = "done" /\ ValidationKinds # {})
    => /\ returned.status = "FAILED"
       /\ returned.completed_at # NoTime
       /\ returned.error_type \in ValidationKinds
       /\ ~session.created
       /\ returned.steps = <<>>

\* C14: get_next_proxy never raises; it returns None exactly when the pool is
\* empty and otherwise the descriptor of an entry that is in the pool.
C14_GetNextNeverRaises ==
    last.op = "get_next_proxy" =>
        /\ last.raises = NoKind
        /\ (last.ret = NoProxy) <=> (last.before.proxies = <<>>)
        /\ last.ret # NoProxy =>
              \E i \in DOMAIN last.before.proxies :
                  last.ret = Descriptor(last.before.proxies[i])

\* C15: on a pool of n >= 1 entries, the get_next_proxy calls made since the
\* pool was last modified returned the entries in insertion order, starting at
\* the rotation index and wrapping around after n calls; none of them raised.
C15_RoundRobin ==
    LET n == Len(manager.proxies)
    IN  n >= 1 =>
            /\ ~rotation.raised
            /\ \A i \in DOMAIN rotation.returns :
                  rotation.returns[i] =
                      Descriptor(manager.proxies[((rotation.start + i - 1) % n) + 1])

\* the manager after one whole call
AfterCall(m, call) ==
    IF call.op = "get_next_proxy" THEN get_next_proxy(m).manager
    ELSE IF call.op = "mark_proxy_failed" THEN mark_proxy_failed(m, call.host, call.port)
    ELSE mark_proxy_success(m, call.host, call.port)

\* the managers that the calls of the callers in todo, made one after the other
\* in some order, lead to
RECURSIVE SequentialOutcomes(_, _)
SequentialOutcomes(m, todo) ==
    IF todo = {} THEN {m}
    ELSE UNION {SequentialOutcomes(AfterCall(m, threads[t].call), todo \ {t}) : t \in todo}

\* C16: concurrent get_next_proxy and mark_proxy_* calls are serialized: when
\* all of them have returned the pool is in a state that some sequential order
\* of the same calls produces, and the rotation index is within the pool.
C16_CallsSerialized ==
    /\ manager.proxies # <<>> => manager.current_index < Len(manager.proxies)
    /\ (\A t \in DOMAIN threads : threads[t].at = "done") =>
          manager \in SequentialOutcomes(last.before, DOMAIN threads)

\* the entry a mark call with these arguments touches, before and after the call
MarkedBefore == last.before.proxies[Matched(last.before, last.args[1], last.args[2])]
MarkedAfter == manager.proxies[Matched(last.before, last.args[1], last.args[2])]

\* C17: every score stays within [0,1]; mark_proxy_success raises the matched
\* entry's score by 0.05 capped at 1, mark_proxy_failed lowers it by 0.1 floored
\* at 0 (scores in hundredths).
C17_ScoreBounded ==
    /\ \A i \in DOMAIN manager.proxies :
          manager.proxies[i].success_rate \in 0..FullScore
    /\ (last.op = "mark_proxy_success" /\ Matched(last.before, last.args[1], last.args[2]) # 0) =>
          MarkedAfter.success_rate =
              IF MarkedBefore.success_rate + 5 > 100 THEN 100
              ELSE MarkedBefore.success_rate + 5
    /\ (last.op = "mark_proxy_failed" /\ Matched(last.before, last.args[1], last.args[2]) # 0) =>
          MarkedAfter.success_rate =
              IF MarkedBefore.success_rate - 10 < 0 THEN 0
              ELSE MarkedBefore.success_rate - 10

\* a failure lowered a score of 0.05 to the floor
C17_Witness ==
    /\ last.op = "mark_proxy_failed"
    /\ Matched(last.before, last.args[1], last.args[2]) # 0
    /\ MarkedBefore.success_rate = 5
    /\ MarkedAfter.success_rate = 0

\* the pool without its scores
Unscored(m) ==
    [proxies |-> [i \in DOMAIN m.proxies |-> [m.proxies[i] EXCEPT !.success_rate = FullScore]],
     current_index |-> m.current_index]

C19_MaintenanceIdempotent ==
    (last.op \in {"add_proxy", "remove_proxy", "clear_proxies"} /\ last.repeat) =>
        manager = last.before

\* the context exists and the construction logged a warning and no error
OnlyWarned ==
    /\ pc = "constructed"
    /\ \E i \in DOMAIN context.log : context.log[i] = "warning"
    /\ \A i \in DOMAIN context.log : context.log[i] # "error"

\* a DESKTOP context carries no proxy, whatever was supplied: proxy_config is
\* None and the launch options have no proxy block
DesktopCarriesNoProxy ==
    (pc = "constructed" /\ context.mode = "DESKTOP") =>
        /\ context.proxy_config = NoProxy
        /\ context.browser_profile.proxy = NoProxy
        /\ "proxy" \notin DOMAIN get_browser_launch_options(context)

Exited == host.at = "exited"

JsonObjects == SelectSeq(host.stdout, LAMBDA line : line.json)

\* C12: on every path through a host-bridge script, import failure and
\* uncaught exceptions included, exactly one JSON object is on stdout when the
\* process exits, and its success field is true only if the exit code is 0
C12_OneJsonObject ==
    Exited =>
        /\ Len(JsonObjects) = 1
        /\ JsonObjects[1].object.success => host.exit_code = 0

\* C13: execute_automation of either integration lets no exception escape:
\* whatever the payload and whatever fails in the construction of the context,
\* in the engine or in the handler, it returns a well-formed ApplicationResult,
\* with success false on failure
C13_NoExceptionEscapes ==
    /\ ~host.escaped
    /\ host.result # NoResult =>
          /\ host.result.status \in ApplicationStatus
          /\ success_matches_status(host.result.status, host.result.success)
          /\ host.failed => ~host.result.success

\* the engine has constructed the ExecutionContext of the run
ContextBuilt == "mode" \in DOMAIN context

\* C21: in SERVER mode, when the proxy pool hands out a proxy for the run, the
\* browser profile from which the browser session of the attempt is created
\* is configured with that proxy
C21_ProfileCarriesAssignedProxy ==
    (ContextBuilt /\ request.script = "server" /\ host.proxy # NoProxy) =>
        /\ context.browser_profile.proxy # NoProxy
        /\ context.browser_profile.proxy = to_playwright_proxy(host.proxy)

\* C22: when the supplied proxy host already embeds a scheme (host
\* 'http://proxy.x.com', port 8080, scheme 'http'), the proxy server string
\* composed for the browser is exactly 'http://proxy.x.com:8080', with no
\* doubled scheme, wherever the context composes one
C22_NoDoubledScheme ==
    (pc = "constructed" /\ context.mode = "SERVER" /\ request.proxy_config # NoProxy
        /\ request.proxy_config.enabled /\ request.proxy_config.host = HostWithScheme) =>
        LET options == get_browser_launch_options(context)
        IN  /\ "proxy" \in DOMAIN options
            /\ options["proxy"].server = ServerProxyX

\* the construction of the ExecutionContext was attempted and raised
ConstructionFailed == "absent" \in DOMAIN context
\* the engine got as far as its handler: a handler class was selected
HandlerReached == host.at \in {"handler", "back"} \/ host.outcome # NoResult

\* C23: when no model credential is present, the construction of the
\* ExecutionContext fails with a configuration error before any browser
\* session is created, and the attempt is short-circuited: no handler is
\* constructed and no agent run is started
C23_NoCredentialShortCircuits ==
    ~request.env.google_api_key =>
        /\ ~ContextBuilt
        /\ ~HandlerReached
        /\ ConstructionFailed =>
              /\ context.log = <<"error">>
              /\ host.failed
              /\ host.at = "integration_except" => host.error = MsgNoApiKey
              /\ host.result # NoResult => host.result.error_message = MsgNoApiKey

\* without a credential, the construction failed and the integration returned
\* the failure
C23_Witness ==
    /\ ~request.env.google_api_key
    /\ ConstructionFailed
    /\ host.result # NoResult
    /\ ~host.result.success

C25_SelectedHandlerRuns ==
    host.at = "back" =>
        LET class == AutomationClass(host.company_type)
        IN  /\ class \in RegisteredAutomations
            /\ host.company_type \in RegisteredAutomations => class = host.company_type
            /\ host.company_type \notin RegisteredAutomations => class = "generic"
            \* apply returned the dict of a result: the handler was constructed and ran
            /\ "job_id" \in DOMAIN host.outcome

\* the ordered substring table of the claim
AtsTable ==
    << [substring |-> PatGreenhouseIo, identifier |-> "greenhouse"],
       [substring |-> PatLeverCo, identifier |-> "lever"],
       [substring |-> <<"w","o","r","k","d","a","y">>, identifier |-> "workday"],
       [substring |-> PatLinkedinCom, identifier |-> "linkedin"],
       [substring |-> PatIndeedCom, identifier |-> "indeed"],
       [substring |-> PatJobviteCom, identifier |-> "jobvite"] >>
\* the identifier of the first entry of the table whose substring occurs in
\* the URL, 'generic' when none does
FirstTableMatch(url) ==
    LET hits == {i \in DOMAIN AtsTable : Contains(Lower(url), AtsTable[i].substring)}
    IN  IF hits = {} THEN "generic"
        ELSE AtsTable[CHOOSE i \in hits : \A j \in hits : i <= j].identifier

\* C24: for every URL, detect_company_type returns the identifier of the first
\* entry of the ordered substring table (greenhouse.io, lever.co, workday,
\* linkedin.com, indeed.com, jobvite.com) whose substring occurs in the URL,
\* 'generic' when none does, and the same identifier as the ATS identifier the
\* job descriptor derives from the same URL
C24_DetectionFollowsTable ==
    last.op = "detect_company_type" =>
        /\ last.ret = FirstTableMatch(request.apply_url)
        /\ last.ret = get_company_identifier([request EXCEPT !.job_board = "None"])

\* C26: for every ApplicationResult with total_steps > 0, after any sequence of
\* add_step calls steps_completed <= total_steps
C26_StepsWithinTotal ==
    (result # NoResult /\ result.total_steps > 0) =>
        result.steps_completed <= result.total_steps

C28_SuccessCarriesConfirmation ==
    (pc = "done" /\ returned # NoResult /\ returned.success) =>
        Truthy(returned.confirmation_number)

\* C29: within one call of apply_to_job the agent is invoked at most once and
\* retry_count is left at 0, whatever the outcome: a failed or unclear attempt
\* is never run again
C29_NoRetry ==
    /\ agent.runs <= 1
    /\ result # NoResult => result.retry_count = 0
    /\ returned # NoResult => returned.retry_count = 0

\* apply_to_job returned a failure after one run of the agent
C29_Witness ==
    /\ pc = "done"
    /\ agent.runs = 1
    /\ returned # NoResult
    /\ ~returned.success
    /\ returned.retry_count = 0

\* C31: when attempts overlap, interleaved at their awaits, the result an
\* attempt returns is the object that attempt constructed: it carries the
\* attempt's job id and exactly the steps the attempt recorded, also when the
\* attempts are calls on one handler object.
C31_AttemptsIsolated ==
    \A i \in Attempts :
        threads[i].pc = "done"
        => /\ threads[i].returned = i
           /\ result.objects[threads[i].returned].job_id = threads[i].job.job_id
           /\ Len(result.objects[threads[i].returned].steps) = threads[i].wrote

\* the agent's final result text or its memory says that login is required
ReportsLoginWall ==
    \E text \in {agent.final_result, agent.memory} :
        /\ Truthy(text)
        /\ \/ Contains(Lower(text), KwLoginRequired)
           \/ Contains(Lower(text), KwLoginRequiredMark)

\* C32: an attempt that the agent reports as blocked by a login wall (and not
\* by a captcha, and without a success marker) is finalized with status
\* LOGIN_REQUIRED.
C32_LoginWallIsLoginRequired ==
    (/\ CleanRun
     /\ ReportsLoginWall
     /\ ~TranscriptHasCaptcha
     /\ ~TranscriptHas(MarkSUCCESS) /\ ~TranscriptHas(MarkCONFIRMATION))
    => returned.status = "LOGIN_REQUIRED"

\* C34: the final page shows a captcha challenge and no success indication, and
\* the agent's transcript decides nothing: the returned result has status
\* CAPTCHA_REQUIRED and success == False.
C34_CaptchaPageIsCaptchaRequired ==
    (/\ CleanRun
     /\ Contains(Lower(page_text), KwCaptcha)
     /\ ~AnyKeyword(page_text, success_indicators)
     /\ agent.final_result = None /\ agent.memory = None)
    => /\ returned.status = "CAPTCHA_REQUIRED"
       /\ returned.success = FALSE

\* C33: in DESKTOP mode, when the caller supplies a browser-profile directory,
\* the browser profile from which the attempt's browser session is created has
\* that directory as its user-data directory.
C33_ProfileUsesSuppliedDirectory ==
    (ContextBuilt /\ request.script = "desktop" /\ Truthy(request.browser_profile_path))
    => context.browser_profile.user_data_dir = request.browser_profile_path

\* C35: after the terminal transition of an attempt's ApplicationResult no step
\* of apply_to_job or of a company handler mutates it: steps, screenshots,
\* steps_completed and performance_metrics stay as they are.
C35_FrozenAfterTerminal ==
    [][ (result # NoResult /\ result.terminal_transitions > 0)
        => /\ result'.steps = result.steps
           /\ result'.screenshots = result.screenshots
           /\ result'.steps_completed = result.steps_completed
           /\ result'.performance_metrics = result.performance_metrics ]_vars

\* the names of the recorded steps, in the order of the list
StepNames(r) == [i \in DOMAIN r.steps |-> r.steps[i].step_name]
\* s is an initial segment of t
IsPrefix(s, t) == Len(s) <= Len(t) /\ \A i \in DOMAIN s : s[i] = t[i]
\* the steps of the lifecycle in the order in which apply_to_job reaches them
LifecycleOrder == <<"initialize", "execute", "confirm">>
\* agent.run() has returned (the browser is on the agent's final page)
AgentReturned == agent.runs >= 1 /\ page_text # None

\* C36: the steps of an attempt are recorded append-only in lifecycle order:
\* initialize only after the browser session has started, execute only after
\* the agent run has returned, confirm only on a SUCCESS classification; no
\* recorded step is reordered or removed, and steps_completed is the number of
\* recorded steps whose success flag is true.
C36_StepsInLifecycleOrder ==
    /\ [](result # NoResult =>
            /\ IsPrefix(StepNames(result), LifecycleOrder)
            /\ Len(result.steps) >= 1 => session.started
            /\ Len(result.steps) >= 2 => AgentReturned
            /\ result.steps_completed =
                  Cardinality({i \in DOMAIN result.steps : result.steps[i].success}))
    /\ [][ (result # NoResult /\ result' # NoResult) =>
              /\ IsPrefix(result.steps, result'.steps)
              /\ (Len(result'.steps) = 3 /\ Len(result.steps) < 3)
                    => result'.status = "SUCCESS" ]_vars

\* an attempt has returned with the three steps recorded
C36_Witness ==
    /\ pc = "done"
    /\ StepNames(returned) = LifecycleOrder
    /\ returned.steps_completed = 3

\* the calls that select a proxy and the calls that give feedback on one
SelectionCalls == {"get_next_proxy", "get_random_proxy", "get_proxy_by_country"}
MarkCalls == {"mark_proxy_failed", "mark_proxy_success"}

\* C37: a pool entry's score changes only through mark_proxy_success /
\* mark_proxy_failed, which change the score of the first entry matching
\* (host, port) and nothing else (the other entries, the order of the pool and
\* the rotation index stay); selection calls, and mark calls naming a
\* (host, port) that is not in the pool, leave every score unchanged; pool
\* maintenance keeps the score of every entry it keeps.
C37_ScoresChangeOnlyByMarks ==
    /\ last.op \in MarkCalls =>
          LET i == Matched(last.before, last.args[1], last.args[2])
          IN  IF i = 0 THEN manager = last.before
              ELSE manager = [last.before EXCEPT !.proxies[i].success_rate =
                                                    manager.proxies[i].success_rate]
    /\ last.op \in SelectionCalls => manager.proxies = last.before.proxies
    /\ last.op = "add_proxy" =>
          /\ IsPrefix(last.before.proxies, manager.proxies)
          /\ manager.proxies[Len(manager.proxies)].success_rate = FullScore
    /\ last.op \in {"remove_proxy", "clear_proxies"} =>
          Range(manager.proxies) \subseteq Range(last.before.proxies)

\* a failure was marked on a host and port that two entries of the pool share:
\* the first entry's score went down, the second entry's did not
C37_Witness ==
    /\ last.op = "mark_proxy_failed"
    /\ Len(last.before.proxies) = 2
    /\ last.before.proxies[1].host = last.args[1]
    /\ last.before.proxies[2].host = last.args[1]
    /\ manager.proxies[1].success_rate < last.before.proxies[1].success_rate
    /\ manager.proxies[2].success_rate = last.before.proxies[2].success_rate

\* C38: in every result apply_to_job returns, confirmation_number is set only
\* if status is SUCCESS.
C38_ConfirmationOnlyOnSuccess ==
    (pc = "done" /\ Truthy(returned.confirmation_number)) => returned.status = "SUCCESS"

\* C39: whenever apply_to_job returns a result with status CAPTCHA_REQUIRED, the
\* result's captcha_events list holds at least one event.
C39_CaptchaEventRecorded ==
    (pc = "done" /\ returned.status = "CAPTCHA_REQUIRED") => returned.captcha_events # <<>>

\* C40: for every URL the dispatcher selects the Greenhouse (respectively the
\* LinkedIn) handler exactly when that handler's can_handle_url accepts the
\* URL.
C40_DispatchAgreesWithHandlers ==
    last.op = "detect_company_type" =>
        /\ last.ret = "greenhouse" <=> can_handle_url("greenhouse", request.apply_url)
        /\ last.ret = "linkedin" <=> can_handle_url("linkedin", request.apply_url)

====
